---- MODULE Spec2Model ----
(***************************************************************************)
(* One invocation of a ComfyUI pipeline node (n8n community node):         *)
(*   dual  - ComfyuiDualImageToImage.execute                               *)
(*   video - ComfyuiImageToVideo.execute                                   *)
(*   audio - ComfyuiTextToAudio.execute                                    *)
(* Every `await this.helpers.request(...)` is two steps: the request is    *)
(* issued (it is in flight) and its response, or its transport failure,    *)
(* is handled.  The render server and the host are the environment: their  *)
(* answers are chosen with \E from small sets.                             *)
(***************************************************************************)
EXTENDS Integers, Sequences, FiniteSets, TLC

(* ------------------------------ bounds -------------------------------- *)

\* largest whole value of the `timeout` parameter (minutes) that is explored
MaxTimeout == 1

\* the number n/d (d > 0); `timeout` is a number field without minimum or step
Ratio(n, d) == [num |-> n, den |-> d]

\* the values of `timeout`: whole minutes, a negative one, a fraction of a minute
TimeoutValues ==
    {Ratio(m, 1) : m \in 0..MaxTimeout} \cup {Ratio(0 - 1, 1), Ratio(1, 7)}

(* ------------------------- program constants -------------------------- *)

\* const maxAttempts = 60 * timeout
AttemptsPerMinute == 60

Pipelines == {"dual", "video", "audio"}

DualInput == {"dual", "video"}

InputTypes == {"url", "base64", "binary"}

\* class_type of the nodes that receive the uploaded images
LoadImage == "LoadImage"

\* const videoNodeTypes = [...]
videoNodeTypes ==
    {"AnimateDiffSampler", "SVD_img2vid_Conditioning", "VideoHelperSuite",
     "VHS_VideoCombine", "AnimateDiffCombine"}

\* const secondImageProps = ['data2', 'image2', 'second_image', 'secondImage']
secondImageProps == <<"data2", "image2", "second_image", "secondImage">>

\* the JavaScript value `undefined` where a string is expected
Undefined == "undefined"

(* ------------------------------ requests ------------------------------ *)

RequestKinds ==
    {"system_stats", "fetch1", "fetch2", "upload1", "upload2",
     "prompt", "history", "view"}

FetchKind(i) == IF i = 1 THEN "fetch1" ELSE "fetch2"

UploadKind(i) == IF i = 1 THEN "upload1" ELSE "upload2"

(* --------------------------- host input data --------------------------- *)

\* the media type of an attachment: begins with image/, something else, or missing
MimeClasses == {"image", "other", "missing"}

Prop(n, m) == [name |-> n, mime |-> m]

\* an input item: its binary attachments in Object.keys order
ItemBothImages == [binary |-> <<Prop("data", "image"), Prop("data2", "image")>>]

ItemTextOnly == [binary |-> <<Prop("data", "other")>>]

ItemsChoices == {<<ItemBothImages>>, <<ItemTextOnly>>}

\* records for the search for an alternative attachment: one image under a
\* name nobody asks for; the first image's attachment and a document; no image
\* at all; an image before an image under a conventional name; conventional
\* names out of their list order; a conventional name on a document; an
\* attachment without media type
ItemPhotoOnly == [binary |-> <<Prop("photo", "image")>>]

ItemDataAndDoc == [binary |-> <<Prop("data", "image"), Prop("doc", "other")>>]

ItemDocOnly == [binary |-> <<Prop("doc", "other")>>]

ItemPhotoImage2 == [binary |-> <<Prop("photo", "image"), Prop("image2", "image")>>]

ItemConventionalPair ==
    [binary |-> <<Prop("data", "image"), Prop("secondImage", "image"),
                  Prop("image2", "image")>>]

ItemImage2Doc ==
    [binary |-> <<Prop("data", "image"), Prop("image2", "other"), Prop("photo", "image")>>]

ItemUntyped == [binary |-> <<Prop("data", "image"), Prop("data2", "missing")>>]

\* the input data explored for the claims about input resolution: one record,
\* or two records of which the video pipeline reads the second image from the second
InputItems ==
    {<<ItemBothImages>>, <<ItemTextOnly>>, <<ItemPhotoOnly>>, <<ItemDataAndDoc>>,
     <<ItemDocOnly>>, <<ItemPhotoImage2>>, <<ItemConventionalPair>>, <<ItemImage2Doc>>,
     <<ItemUntyped>>, <<ItemDataAndDoc, ItemDocOnly>>, <<ItemDataAndDoc, ItemPhotoOnly>>}

FirstBinaryNames == {"data"}

SecondBinaryNames == {"data2"}

\* a byte buffer, identified by where its bytes come from
NoBuffer == [src |-> "none", item |-> 0, name |-> ""]

UrlBuffer(i) == [src |-> "url", item |-> i, name |-> ""]

Base64Buffer(i) == [src |-> "base64", item |-> i, name |-> ""]

AttachmentBuffer(idx, n) == [src |-> "binary", item |-> idx, name |-> n]

(* ------------------------------ workflows ------------------------------ *)

Node(id, ct, inp) == [id |-> id, class_type |-> ct, inputs |-> inp]

\* graph with two LoadImage nodes and a video combiner
GraphTwoLoad ==
    << Node("load_image_1", LoadImage, [image |-> "x.png"]),
       Node("load_image_2", LoadImage, [image |-> "y.png"]),
       Node("combine", "VHS_VideoCombine", [frame_rate |-> "24", filename_prefix |-> "out"]),
       Node("sampler", "KSampler", [seed |-> "1", steps |-> "20", cfg |-> "7"]) >>

\* graph with a single LoadImage node
GraphOneLoad ==
    << Node("load_image_1", LoadImage, [image |-> "x.png"]),
       Node("sampler", "KSampler", [seed |-> "1", steps |-> "20", cfg |-> "7"]) >>

\* graph of the audio pipeline's default workflow, reduced to the patched nodes
GraphAudio ==
    << Node("14", "TextEncodeAceStepAudio", [tags |-> "old", lyrics_strength |-> "1"]),
       Node("17", "EmptyAceStepLatentAudio", [seconds |-> "120", batch_size |-> "1"]),
       Node("52", "KSampler", [seed |-> "1", steps |-> "20", cfg |-> "7"]),
       Node("59", "SaveAudioMP3", [quality |-> "V0", filename_prefix |-> "audio"]) >>

\* graph with four LoadImage nodes, the first of them without an image input
GraphFourLoad ==
    << Node("bare", LoadImage, [upload |-> "image"]),
       Node("load_image_1", LoadImage, [image |-> "x.png"]),
       Node("load_image_2", LoadImage, [image |-> "y.png"]),
       Node("load_image_3", LoadImage, [image |-> "z.png"]) >>

\* graph with two LoadImage nodes, the second of them without an image input
GraphBareSecond ==
    << Node("load_image_1", LoadImage, [image |-> "x.png"]),
       Node("load_image_2", LoadImage, [upload |-> "image"]) >>

\* graph with two nodes of a video kind and a node of another kind that
\* carries the same field names
GraphSweep ==
    << Node("load_image_1", LoadImage, [image |-> "x.png"]),
       Node("load_image_2", LoadImage, [image |-> "y.png"]),
       Node("animate", "AnimateDiffSampler", [frame_count |-> "1", fps |-> "2"]),
       Node("combine", "VHS_VideoCombine", [frames |-> "3", frame_rate |-> "4"]),
       Node("sampler", "KSampler", [frames |-> "5", fps |-> "6", seed |-> "1"]) >>

\* audio graph with two text encoders, whose other nodes lack the patched fields
GraphAudioSparse ==
    << Node("14", "TextEncodeAceStepAudio", [tags |-> "old"]),
       Node("15", "TextEncodeAceStepAudio", [tags |-> "older"]),
       Node("17", "EmptyAceStepLatentAudio", [batch_size |-> "1"]),
       Node("52", "KSampler", [steps |-> "20"]),
       Node("59", "SaveAudioMP3", [filename_prefix |-> "audio"]) >>

\* a JSON array whose elements are nodes: Object.values and the for-in keys
\* enumerate the elements, under the ids "0", "1", ...
GraphArray ==
    << Node("0", LoadImage, [image |-> "x.png"]),
       Node("1", LoadImage, [image |-> "y.png"]),
       Node("2", "TextEncodeAceStepAudio", [tags |-> "old"]) >>

\* the workflow texts a caller may supply
WorkflowTexts == {"{not json", "42", "two_load.json", "one_load.json", "audio.json"}

\* texts that are valid JSON with a top-level value that is not an object
NonObjectTexts == {"42", "null", "true", "\"text\"", "[]", "[nodes]"}

\* the texts explored for the claims about graph parsing and patching
GraphTexts ==
    WorkflowTexts \cup NonObjectTexts
    \cup {"four_load.json", "bare_second.json", "sweep.json", "audio_sparse.json"}

Unparsed == [kind |-> "unparsed", nodes |-> <<>>]

\* JSON.parse(workflow): the parsed value, or kind "invalid" when it throws
JsonParse(text) ==
    CASE text = "{not json"     -> [kind |-> "invalid", nodes |-> <<>>]
      [] text = "42"            -> [kind |-> "number", nodes |-> <<>>]
      [] text = "null"          -> [kind |-> "null", nodes |-> <<>>]
      [] text = "true"          -> [kind |-> "boolean", nodes |-> <<>>]
      [] text = "\"text\""      -> [kind |-> "string", nodes |-> <<>>]
      [] text = "[]"            -> [kind |-> "array", nodes |-> <<>>]
      [] text = "[nodes]"       -> [kind |-> "array", nodes |-> GraphArray]
      [] text = "four_load.json"    -> [kind |-> "object", nodes |-> GraphFourLoad]
      [] text = "bare_second.json"  -> [kind |-> "object", nodes |-> GraphBareSecond]
      [] text = "sweep.json"        -> [kind |-> "object", nodes |-> GraphSweep]
      [] text = "audio_sparse.json" -> [kind |-> "object", nodes |-> GraphAudioSparse]
      [] text = "two_load.json" -> [kind |-> "object", nodes |-> GraphTwoLoad]
      [] text = "one_load.json" -> [kind |-> "object", nodes |-> GraphOneLoad]
      [] text = "audio.json"    -> [kind |-> "object", nodes |-> GraphAudio]
      [] OTHER                  -> [kind |-> "invalid", nodes |-> <<>>]

\* typeof workflowData !== 'object' || workflowData === null
NotAnObject(w) == w.kind \notin {"object", "array"}

(* -------------------------------- state -------------------------------- *)

VARIABLES
    params,             \* the node parameters of the invocation (getNodeParameter)
    items,              \* the input items (getInputData)
    pc,                 \* position of the invocation in execute()
    inflight,           \* per request kind, the requests issued and not yet settled
    failed,             \* the request kinds that settled with a transport failure
    sent,               \* per request kind, the number of requests issued
    carried,            \* per request kind, the headers of the last request issued
    firstRequest,       \* kind of the first request issued ("none" before it)
    firstImageBuffer,
    secondImageBuffer,
    firstImageInfo,     \* name in the parsed response of the first upload
    secondImageInfo,    \* name in the parsed response of the second upload
    workflowData,       \* the parsed workflow, patched in place
    submitted,          \* body.prompt of the POST /prompt request, once issued
    promptId,
    attempts,
    history,            \* response awaited by the current tick, once it arrived
    onlyNoEntry,        \* every history query so far was answered without the job id
    priorNoEntry,       \* every answer that left the job pending had no entry for it
    server,             \* the render server: how it names uploads, the assets it stores
    peer,               \* position of a second invocation running against the same server
    imageOutput,        \* the selected artifact (a sequence of at most one)
    result,             \* the returned item (a sequence of at most one)
    error               \* kind of the error execute() throws ("" when none)

vars ==
    << params, items, pc, inflight, failed, sent, carried, firstRequest, firstImageBuffer,
       secondImageBuffer, firstImageInfo, secondImageInfo, workflowData,
       submitted, promptId, attempts, history, onlyNoEntry, priorNoEntry,
       server, peer, imageOutput, result, error >>

NoHistory == [arrived |-> FALSE, entry |-> FALSE, status |-> FALSE,
              completed |-> FALSE, status_str |-> "", outputs |-> <<>>]

\* const maxAttempts = 60 * timeout
maxAttempts == Ratio(AttemptsPerMinute * params.timeout.num, params.timeout.den)

\* n < q, n <= q and n = q for a whole number n and a ratio q
Below(n, q) == n * q.den < q.num

AtMost(n, q) == n * q.den <= q.num

Equals(n, q) == n * q.den = q.num

BinaryUsed(p, t1, t2) == p \in DualInput /\ "binary" \in {t1, t2}

\* firstImageNodeId and secondImageNodeId: the defaults of the video pipeline
DefaultNodeIds == <<"load_image_1", "load_image_2">>

\* nothing is stored under a name
NoAsset == [by |-> 0, bytes |-> NoBuffer]

\* the bytes stored under a name and the invocation (1: this one, 2: the peer) that sent them
Asset(by, bytes) == [by |-> by, bytes |-> bytes]

\* the name the server answers for the i-th upload when it does not keep the file name sent
ServerName(i) == IF i = 1 THEN "a.png" ELSE "b.png"

\* the file name the i-th image is sent under
AssetName(i) == IF i = 1 THEN "first_input.png" ELSE "second_input.png"

StoredNames == {AssetName(1), AssetName(2), ServerName(1), ServerName(2)}

\* how the server names an upload: under the file name sent (overwrite), or a name of its own
Namings == {"kept", "renamed"}

\* the state after the parameters were read: the parameters, the input data,
\* the server and the peer invocation are drawn from the given sets
InitFrom(pipes, timeouts, texts, types, ids, namings, peers, inputs, keys) ==
    /\ \E p \in pipes, t \in timeouts, w \in texts, key \in keys :
         \E t1 \in (IF p \in DualInput THEN types ELSE {"url"}),
            t2 \in (IF p \in DualInput THEN types ELSE {"url"}),
            b1 \in FirstBinaryNames, b2 \in SecondBinaryNames,
            id \in (IF p = "video" THEN ids ELSE {DefaultNodeIds}) :
           /\ params = [apiKey |-> key,
                        pipeline |-> p, timeout |-> t, workflow |-> w,
                        firstInputType |-> t1, secondInputType |-> t2,
                        firstBinaryPropertyName |-> b1,
                        secondBinaryPropertyName |-> b2,
                        firstImageNodeId |-> id[1],
                        secondImageNodeId |-> id[2],
                        frameCount |-> "16", frameRate |-> "8",
                        textPrompt |-> "rock", audioDuration |-> "180",
                        audioQuality |-> "128k", seed |-> "-1",
                        steps |-> "50", cfg |-> "5"]
           /\ items \in (IF BinaryUsed(p, t1, t2) THEN inputs
                         ELSE {<<ItemBothImages>>})
    /\ \E n \in namings : server = [naming |-> n, store |-> [x \in StoredNames |-> NoAsset]]
    /\ peer \in peers
    /\ pc = "start"
    /\ inflight = [k \in RequestKinds |-> 0]
    /\ failed = {}
    /\ sent = [k \in RequestKinds |-> 0]
    /\ carried = [k \in RequestKinds |-> {}]
    /\ firstRequest = "none"
    /\ firstImageBuffer = NoBuffer
    /\ secondImageBuffer = NoBuffer
    /\ firstImageInfo = ""
    /\ secondImageInfo = ""
    /\ workflowData = Unparsed
    /\ submitted = <<>>
    /\ promptId = ""
    /\ attempts = 0
    /\ history = NoHistory
    /\ onlyNoEntry = TRUE
    /\ priorNoEntry = TRUE
    /\ imageOutput = <<>>
    /\ result = <<>>
    /\ error = ""

\* InitFrom with the input data of ItemsChoices
InitOf(pipes, timeouts, texts, types, ids, namings, peers) ==
    InitFrom(pipes, timeouts, texts, types, ids, namings, peers, ItemsChoices, {""})

\* one invocation alone, with the default node ids, against a server that keeps
\* the file names sent; the input types are drawn from types
InitWith(types) ==
    InitOf(Pipelines, TimeoutValues, WorkflowTexts, types, {DefaultNodeIds},
           {"kept"}, {"absent"})

Init == InitWith(InputTypes)

\* invocations whose two images, if any, are given by URL
UrlInit == InitWith({"url"})

\* a timeout of a seventh of a minute: nine ticks
ShortTimeout == Ratio(1, 7)

\* the node ids a caller of the video pipeline may give: the defaults, the id of
\* a node of another kind in the first or in the second place, the same id twice
VideoNodeIds ==
    {DefaultNodeIds, <<"combine", "load_image_2">>, <<"load_image_1", "sampler">>,
     <<"load_image_1", "load_image_1">>}

\* every graph text and node id choice, with URL inputs and a short timeout,
\* against a server that answers names of its own
GraphInit ==
    InitOf(Pipelines, {ShortTimeout}, GraphTexts, {"url"}, VideoNodeIds,
           {"renamed"}, {"absent"})

\* the dual-input pipelines with every choice of input data, a graph with two
\* LoadImage nodes and a short timeout
InputInit ==
    InitFrom(DualInput, {ShortTimeout}, {"two_load.json"}, {"url", "binary"},
             {DefaultNodeIds}, {"kept"}, {"absent"}, InputItems, {""})

\* credentials.apiKey: empty, or a key
ApiKeys == {"", "key"}

\* every pipeline with and without an API key, URL inputs and a short timeout
AuthInit ==
    InitFrom(Pipelines, {ShortTimeout}, {"two_load.json", "audio.json"}, {"url"},
             {DefaultNodeIds}, {"kept"}, {"absent"}, ItemsChoices, ApiKeys)

\* a dual-input invocation while a second one starts its uploads to the same
\* server, which keeps the file names sent (overwrite = 'true')
PairInit ==
    InitOf(DualInput, {ShortTimeout}, {"two_load.json"}, {"url"}, {DefaultNodeIds},
           {"kept"}, {"upload1"})

(* ------------------------------- helpers ------------------------------- *)

Header(n, v) == [name |-> n, value |-> v]

\* `Bearer ${apiKey}`
Bearer(key) == <<"Bearer", key>>

\* const headers = { 'Content-Type': 'application/json' }; if (apiKey) headers['Authorization'] = ...
headers ==
    {Header("Content-Type", "application/json")}
    \cup (IF params.apiKey # "" THEN {Header("Authorization", Bearer(params.apiKey))} ELSE {})

\* formData.getHeaders()
FormHeaders == {Header("content-type", "multipart/form-data")}

\* RequestHeaders with the node's headers on every request
RequestHeadersEverywhere(k) == headers

\* the headers option of the request of kind k
RequestHeaders(k) ==
    CASE k \in {"fetch1", "fetch2"}   -> {}
      [] k \in {"upload1", "upload2"} -> headers \cup FormHeaders
      [] k = "view"                   -> {h \in headers : h.name = "Authorization"}
      [] OTHER                        -> headers

\* this.helpers.request(...): the request of kind k goes out and is awaited
Send(k) ==
    /\ inflight' = [inflight EXCEPT ![k] = @ + 1]
    /\ failed' = failed
    /\ sent' = [sent EXCEPT ![k] = @ + 1]
    /\ carried' = [carried EXCEPT ![k] = RequestHeaders(k)]
    /\ firstRequest' = IF firstRequest = "none" THEN k ELSE firstRequest

\* the awaited request of kind k settled: with a response, or (~ok) by rejecting
Settle(k, ok) ==
    /\ inflight' = [inflight EXCEPT ![k] = @ - 1]
    /\ failed' = IF ok THEN failed ELSE failed \cup {k}
    /\ UNCHANGED <<sent, carried, firstRequest>>

NoRequest == UNCHANGED <<inflight, failed, sent, carried, firstRequest>>

\* a throw inside try: the catch rethrows one NodeApiError carrying the message
Throw(kind) ==
    /\ pc' = "done"
    /\ error' = kind
    /\ result' = <<>>

\* index of the first element of s that satisfies P, 0 when there is none (Array.find)
FirstIndex(s, P(_)) ==
    IF \E k \in 1..Len(s) : P(s[k])
    THEN CHOOSE k \in 1..Len(s) : P(s[k]) /\ \A j \in 1..(k - 1) : ~P(s[j])
    ELSE 0

\* item.binary?.[name]: index of the attachment called name, 0 when absent
PropIndex(item, n) == FirstIndex(item.binary, LAMBDA q : q.name = n)

\* IsImage accepting every declared media type
IsImageOrOther(q) == q.mime \in {"image", "other"}

\* mimeType?.startsWith('image/')
IsImage(q) == q.mime = "image"

(* ------------------------- connectivity probe -------------------------- *)

\* ProbeRequest without the probe: the first stage starts at once
ProbeRequestSkipped ==
    /\ pc = "start"
    /\ NoRequest
    /\ pc' = IF params.pipeline \in DualInput THEN "resolve1" ELSE "parse"
    /\ UNCHANGED <<server, peer, priorNoEntry, params, items,
                   firstImageBuffer, secondImageBuffer,
                   firstImageInfo, secondImageInfo, workflowData, submitted,
                   promptId, attempts, history, onlyNoEntry, imageOutput,
                   result, error>>

\* await this.helpers.request({ method: 'GET', url: `${apiUrl}/system_stats` })
ProbeRequest ==
    /\ pc = "start"
    /\ Send("system_stats")
    /\ pc' = "probe_wait"
    /\ UNCHANGED <<server, peer, priorNoEntry, params, items,
                   firstImageBuffer, secondImageBuffer,
                   firstImageInfo, secondImageInfo, workflowData, submitted,
                   promptId, attempts, history, onlyNoEntry, imageOutput,
                   result, error>>

\* ProbeResponse with the failure noted but not thrown
ProbeResponseSwallowed ==
    /\ pc = "probe_wait"
    /\ \E ok \in BOOLEAN :
         /\ Settle("system_stats", ok)
         /\ pc' = IF params.pipeline \in DualInput THEN "resolve1" ELSE "parse"
         /\ error' = IF ok THEN error ELSE "ProbeFailed"
         /\ UNCHANGED result
    /\ UNCHANGED <<server, peer, priorNoEntry, params, items,
                   firstImageBuffer, secondImageBuffer,
                   firstImageInfo, secondImageInfo, workflowData, submitted,
                   promptId, attempts, history, onlyNoEntry, imageOutput>>

\* the probe settles: a failure is thrown, otherwise the pipeline's first stage follows
ProbeResponse ==
    /\ pc = "probe_wait"
    /\ \E ok \in BOOLEAN :
         /\ Settle("system_stats", ok)
         /\ IF ok
            THEN /\ pc' = IF params.pipeline \in DualInput THEN "resolve1" ELSE "parse"
                 /\ UNCHANGED <<result, error>>
            ELSE Throw("ProbeFailed")
    /\ UNCHANGED <<server, peer, priorNoEntry, params, items,
                   firstImageBuffer, secondImageBuffer,
                   firstImageInfo, secondImageInfo, workflowData, submitted,
                   promptId, attempts, history, onlyNoEntry, imageOutput>>

(* --------------------------- input resolution -------------------------- *)

InputTypeOf(i) == IF i = 1 THEN params.firstInputType ELSE params.secondInputType

BinaryNameOf(i) ==
    IF i = 1 THEN params.firstBinaryPropertyName ELSE params.secondBinaryPropertyName

\* ExcludedName with nothing skipped
ExcludedNameNone == ""

\* the property the dual-image pipeline's search for the second image skips
ExcludedName ==
    IF params.firstInputType = "binary" THEN params.firstBinaryPropertyName ELSE ""

\* dual-image pipeline: the attachment used for image i, 0 when none is found
DualActualIndex(i) ==
    LET item == items[1]
        req  == PropIndex(item, BinaryNameOf(i))
    IN  IF req # 0 THEN req
        ELSE IF i = 1 THEN FirstIndex(item.binary, IsImage)
        ELSE FirstIndex(item.binary, LAMBDA q : IsImage(q) /\ q.name # ExcludedName)

\* video pipeline: position in items of the item searched for image i
TargetItem(i) == IF i = 2 /\ Len(items) > 1 THEN 2 ELSE 1

\* FoundSecondProp with the conventional names never looked at
FoundSecondPropNone(item) == ""

\* video pipeline: the first conventional name that is an image attachment of item, "" when none
FoundSecondProp(item) ==
    LET k == FirstIndex(secondImageProps,
                        LAMBDA n : PropIndex(item, n) # 0
                                   /\ IsImage(item.binary[PropIndex(item, n)]))
    IN  IF k = 0 THEN "" ELSE secondImageProps[k]

\* video pipeline (getImageBuffer): the attachment used for image i, 0 when none is found
VideoActualIndex(i) ==
    LET item == items[TargetItem(i)]
        req  == PropIndex(item, BinaryNameOf(i))
        conv == IF i = 2 THEN FoundSecondProp(item) ELSE ""
    IN  IF req # 0 THEN req
        ELSE IF conv # "" THEN PropIndex(item, conv)
        ELSE FirstIndex(item.binary, IsImage)

\* ResolveBinary without the check of the media type
ResolveBinaryUnchecked(i) ==
    LET pos  == IF params.pipeline = "video" THEN TargetItem(i) ELSE 1
        item == items[pos]
        k    == IF params.pipeline = "video" THEN VideoActualIndex(i)
                ELSE DualActualIndex(i)
    IN  IF k = 0 THEN [err |-> "NotFound", buffer |-> NoBuffer]
        ELSE [err |-> "", buffer |-> AttachmentBuffer(pos - 1, item.binary[k].name)]

\* outcome of the binary branch for image i: the error kind ("" when none) and
\* the buffer getBinaryDataBuffer returned (read before the media type is checked)
ResolveBinary(i) ==
    LET pos  == IF params.pipeline = "video" THEN TargetItem(i) ELSE 1
        item == items[pos]
        k    == IF params.pipeline = "video" THEN VideoActualIndex(i)
                ELSE DualActualIndex(i)
    IN  IF k = 0 THEN [err |-> "NotFound", buffer |-> NoBuffer]
        ELSE [err |-> IF IsImage(item.binary[k]) THEN "" ELSE "WrongMediaType",
              buffer |-> AttachmentBuffer(pos - 1, item.binary[k].name)]

ResolvePc(i) == IF i = 1 THEN "resolve1" ELSE "resolve2"

FetchWaitPc(i) == IF i = 1 THEN "fetch1_wait" ELSE "fetch2_wait"

\* AfterResolvePc with the uploads starting as soon as one image is there
AfterResolvePcSkip(i) == "upload1"

AfterResolvePc(i) == IF i = 1 THEN "resolve2" ELSE "upload1"

SetBuffer(i, b) ==
    /\ firstImageBuffer' = IF i = 1 THEN b ELSE firstImageBuffer
    /\ secondImageBuffer' = IF i = 2 THEN b ELSE secondImageBuffer

\* "Prepare first image" / "Prepare second image" / getImageBuffer up to its first await
ResolveImage(i) ==
    /\ pc = ResolvePc(i)
    /\ CASE InputTypeOf(i) = "url" ->
              /\ Send(FetchKind(i))
              /\ pc' = FetchWaitPc(i)
              /\ UNCHANGED <<firstImageBuffer, secondImageBuffer, result, error>>
         [] InputTypeOf(i) = "binary" ->
              /\ NoRequest
              /\ IF ResolveBinary(i).err # ""
                 THEN /\ Throw(ResolveBinary(i).err)
                      \* the dual-image pipeline assigns the buffer before it
                      \* looks at the media type; getImageBuffer returns nothing
                      /\ IF params.pipeline = "dual"
                         THEN SetBuffer(i, ResolveBinary(i).buffer)
                         ELSE UNCHANGED <<firstImageBuffer, secondImageBuffer>>
                 ELSE /\ SetBuffer(i, ResolveBinary(i).buffer)
                      /\ pc' = AfterResolvePc(i)
                      /\ UNCHANGED <<result, error>>
         [] OTHER ->
              /\ NoRequest
              /\ SetBuffer(i, Base64Buffer(i))
              /\ pc' = AfterResolvePc(i)
              /\ UNCHANGED <<result, error>>
    /\ UNCHANGED <<server, peer, priorNoEntry, params, items, firstImageInfo, secondImageInfo, workflowData,
                   submitted, promptId, attempts, history, onlyNoEntry,
                   imageOutput>>

\* the download of image i settles
ImageFetchResponse(i) ==
    /\ pc = FetchWaitPc(i)
    /\ \E ok \in BOOLEAN :
         /\ Settle(FetchKind(i), ok)
         /\ IF ok
            THEN /\ SetBuffer(i, UrlBuffer(i))
                 /\ pc' = AfterResolvePc(i)
                 /\ UNCHANGED <<result, error>>
            ELSE /\ Throw("FetchFailed")
                 /\ UNCHANGED <<firstImageBuffer, secondImageBuffer>>
    /\ UNCHANGED <<server, peer, priorNoEntry, params, items, firstImageInfo, secondImageInfo, workflowData,
                   submitted, promptId, attempts, history, onlyNoEntry,
                   imageOutput>>

(* ------------------------------- uploads ------------------------------- *)

\* what POST /upload/image may answer: a transport failure, a body that is not
\* JSON, JSON without a name, or JSON with the name the server stored the file under
UploadAnswers == {"fail", "not_json", "no_name", "named"}

\* the name the server stores the i-th upload under
StoredName(i) == IF server.naming = "kept" THEN AssetName(i) ELSE ServerName(i)

\* the bytes the i-th upload carries
UploadedBuffer(i) == IF i = 1 THEN firstImageBuffer ELSE secondImageBuffer

UploadPc(i) == IF i = 1 THEN "upload1" ELSE "upload2"

UploadWaitPc(i) == IF i = 1 THEN "upload1_wait" ELSE "upload2_wait"

AfterUploadPc(i) == IF i = 1 THEN "upload2" ELSE "parse"

\* uploadImage / "Upload first image to ComfyUI": the multipart POST goes out
UploadRequest(i) ==
    /\ pc = UploadPc(i)
    /\ Send(UploadKind(i))
    /\ pc' = UploadWaitPc(i)
    /\ UNCHANGED <<server, peer, priorNoEntry, params, items,
                   firstImageBuffer, secondImageBuffer,
                   firstImageInfo, secondImageInfo, workflowData, submitted,
                   promptId, attempts, history, onlyNoEntry, imageOutput,
                   result, error>>

\* JSON.parse(uploadResponse) as ImageInfo; the server has stored the bytes it answers for
UploadResponse(i) ==
    /\ pc = UploadWaitPc(i)
    /\ \E a \in UploadAnswers :
         /\ Settle(UploadKind(i), a # "fail")
         /\ CASE a = "fail" ->
                /\ Throw("UploadFailed")
                /\ UNCHANGED <<firstImageInfo, secondImageInfo, server>>
           [] a = "not_json" ->
                /\ Throw("MalformedResponse")
                /\ UNCHANGED <<firstImageInfo, secondImageInfo, server>>
           [] OTHER ->
                /\ server' = [server EXCEPT
                                !.store[StoredName(i)] = Asset(1, UploadedBuffer(i))]
                /\ firstImageInfo' =
                       IF i # 1 THEN firstImageInfo
                       ELSE IF a = "named" THEN StoredName(1) ELSE Undefined
                /\ secondImageInfo' =
                       IF i # 2 THEN secondImageInfo
                       ELSE IF a = "named" THEN StoredName(2) ELSE Undefined
                /\ pc' = AfterUploadPc(i)
                /\ UNCHANGED <<result, error>>
    /\ UNCHANGED <<peer, priorNoEntry, params, items,
                   firstImageBuffer, secondImageBuffer,
                   workflowData, submitted, promptId, attempts, history,
                   onlyNoEntry, imageOutput>>

(* ---------------------------- graph patching --------------------------- *)

\* JSON.parse(workflow) and the structure check
ParseWorkflow ==
    /\ pc = "parse"
    /\ NoRequest
    /\ LET w == JsonParse(params.workflow)
       IN  IF w.kind = "invalid"
           THEN /\ Throw("InvalidJson")
                /\ UNCHANGED workflowData
           ELSE /\ workflowData' = w
                /\ IF NotAnObject(w)
                   THEN Throw("NotAnObject")
                   ELSE /\ pc' = "patch"
                        /\ UNCHANGED <<result, error>>
    /\ UNCHANGED <<server, peer, priorNoEntry, params, items,
                   firstImageBuffer, secondImageBuffer,
                   firstImageInfo, secondImageInfo, submitted, promptId,
                   attempts, history, onlyNoEntry, imageOutput>>

HasInput(node, f) == f \in DOMAIN node.inputs

\* SetInput replacing the whole inputs object by the one field
SetInputAlone(node, f, v) ==
    [node EXCEPT !.inputs = [g \in {f} |-> v]]

\* node.inputs[f] = v
SetInput(node, f, v) ==
    [node EXCEPT !.inputs =
        [g \in (DOMAIN node.inputs) \cup {f} |-> IF g = f THEN v ELSE node.inputs[g]]]

\* if (node.inputs[f] !== undefined) node.inputs[f] = v
SetIfPresent(node, f, v) ==
    IF HasInput(node, f) /\ node.inputs[f] # Undefined THEN SetInput(node, f, v) ELSE node

Indices(nodes) == [k \in 1..Len(nodes) |-> k]

\* loadImageNodes with the filter looking at the kind alone
loadImageNodesByKind(nodes) ==
    SelectSeq(Indices(nodes), LAMBDA k : nodes[k].class_type = LoadImage)

\* positions of the nodes the dual-image pipeline's filter keeps, in Object.values order
loadImageNodes(nodes) ==
    SelectSeq(Indices(nodes),
              LAMBDA k : /\ nodes[k].class_type = LoadImage
                         /\ HasInput(nodes[k], "image")
                         /\ nodes[k].inputs.image # Undefined)

\* dual-image pipeline: the first two LoadImage nodes receive the uploaded names
PatchDual(nodes) ==
    LET found == loadImageNodes(nodes)
    IN  IF Len(found) < 2
        THEN [err |-> "InsufficientMatches", nodes |-> nodes]
        ELSE [err |-> "",
              nodes |-> [k \in 1..Len(nodes) |->
                           IF k = found[2] THEN SetInput(nodes[k], "image", secondImageInfo)
                           ELSE IF k = found[1] THEN SetInput(nodes[k], "image", firstImageInfo)
                           ELSE nodes[k]]]

\* workflowData[id]: position of the node with that id, 0 when there is none
NodeById(nodes, id) == FirstIndex(nodes, LAMBDA n : n.id = id)

\* IsLoadImageAt without the test of the kind
IsLoadImageAtAnyKind(nodes, k) == k # 0

\* !node || node.class_type !== 'LoadImage'
IsLoadImageAt(nodes, k) == k # 0 /\ nodes[k].class_type = LoadImage

SetImageAt(nodes, k, v) ==
    [j \in 1..Len(nodes) |-> IF j = k THEN SetInput(nodes[j], "image", v) ELSE nodes[j]]

\* SweepVideo stopping at the first node of a video kind
SweepVideoFirstOnly(nodes) ==
    [k \in 1..Len(nodes) |->
        IF /\ nodes[k].class_type \in videoNodeTypes
           /\ \A j \in 1..(k - 1) : nodes[j].class_type \notin videoNodeTypes
        THEN SetIfPresent(
               SetIfPresent(
                 SetIfPresent(
                   SetIfPresent(nodes[k], "frame_count", params.frameCount),
                   "frames", params.frameCount),
                 "frame_rate", params.frameRate),
               "fps", params.frameRate)
        ELSE nodes[k]]

\* the sweep over the nodes of a video kind
SweepVideo(nodes) ==
    [k \in 1..Len(nodes) |->
        IF nodes[k].class_type \in videoNodeTypes
        THEN SetIfPresent(
               SetIfPresent(
                 SetIfPresent(
                   SetIfPresent(nodes[k], "frame_count", params.frameCount),
                   "frames", params.frameCount),
                 "frame_rate", params.frameRate),
               "fps", params.frameRate)
        ELSE nodes[k]]

\* PatchVideo with the two uploaded names exchanged
PatchVideoSwapped(nodes) ==
    LET k1     == NodeById(nodes, params.firstImageNodeId)
        after1 == SetImageAt(nodes, k1, secondImageInfo)
        k2     == NodeById(after1, params.secondImageNodeId)
        after2 == SetImageAt(after1, k2, firstImageInfo)
    IN  IF ~IsLoadImageAt(nodes, k1) THEN [err |-> "NodeNotFound", nodes |-> nodes]
        ELSE IF ~IsLoadImageAt(after1, k2) THEN [err |-> "NodeNotFound", nodes |-> after1]
        ELSE [err |-> "", nodes |-> SweepVideo(after2)]

\* video pipeline: the two nodes are looked up by id, patched, then the sweep runs
PatchVideo(nodes) ==
    LET k1     == NodeById(nodes, params.firstImageNodeId)
        after1 == SetImageAt(nodes, k1, firstImageInfo)
        k2     == NodeById(after1, params.secondImageNodeId)
        after2 == SetImageAt(after1, k2, secondImageInfo)
    IN  IF ~IsLoadImageAt(nodes, k1) THEN [err |-> "NodeNotFound", nodes |-> nodes]
        ELSE IF ~IsLoadImageAt(after1, k2) THEN [err |-> "NodeNotFound", nodes |-> after1]
        ELSE [err |-> "", nodes |-> SweepVideo(after2)]

\* FirstOfKind returning the last match instead of the first
LastOfKind(nodes, kind) ==
    LET found == {k \in 1..Len(nodes) : nodes[k].class_type = kind}
    IN  IF found = {} THEN 0 ELSE CHOOSE k \in found : \A j \in found : j <= k

\* Object.values(workflowData).find(node => node.class_type === kind)
FirstOfKind(nodes, kind) == FirstIndex(nodes, LAMBDA n : n.class_type = kind)

\* node.inputs[f] = v on the first node of that kind, when there is one
SetOnFirstOfKind(nodes, kind, f, v) ==
    [k \in 1..Len(nodes) |->
        IF k = FirstOfKind(nodes, kind) THEN SetInput(nodes[k], f, v) ELSE nodes[k]]

\* Math.floor(Math.random() * 1000000000000000)
RandomSeeds == {"r1", "r2"}

\* audio pipeline: prompt, duration, sampler settings and quality; s is the seed written
PatchAudio(nodes, s) ==
    IF FirstOfKind(nodes, "TextEncodeAceStepAudio") = 0
    THEN [err |-> "KindNotFound", nodes |-> nodes]
    ELSE [err |-> "",
          nodes |->
            SetOnFirstOfKind(
              SetOnFirstOfKind(
                SetOnFirstOfKind(
                  SetOnFirstOfKind(
                    SetOnFirstOfKind(
                      SetOnFirstOfKind(nodes, "TextEncodeAceStepAudio", "tags",
                                       params.textPrompt),
                      "EmptyAceStepLatentAudio", "seconds", params.audioDuration),
                    "KSampler", "seed", s),
                  "KSampler", "steps", params.steps),
                "KSampler", "cfg", params.cfg),
              "SaveAudioMP3", "quality", params.audioQuality)]

\* seed === -1 ? random : seed
SeedsWritten == IF params.seed = "-1" THEN RandomSeeds ELSE {params.seed}

\* locate the target nodes and write the fields
PatchWorkflow ==
    /\ pc = "patch"
    /\ NoRequest
    /\ \E s \in (IF params.pipeline = "audio" THEN SeedsWritten ELSE {params.seed}) :
         LET r == CASE params.pipeline = "dual"  -> PatchDual(workflowData.nodes)
                    [] params.pipeline = "video" -> PatchVideo(workflowData.nodes)
                    [] OTHER                     -> PatchAudio(workflowData.nodes, s)
         IN  /\ workflowData' = [workflowData EXCEPT !.nodes = r.nodes]
             /\ IF r.err # ""
                THEN Throw(r.err)
                ELSE /\ pc' = "submit"
                     /\ UNCHANGED <<result, error>>
    /\ UNCHANGED <<server, peer, priorNoEntry, params, items,
                   firstImageBuffer, secondImageBuffer,
                   firstImageInfo, secondImageInfo, submitted, promptId,
                   attempts, history, onlyNoEntry, imageOutput>>

(* ------------------------------ submission ----------------------------- *)

\* JSON.stringify of a node: a field whose value is undefined is left out
SerializeNode(node) ==
    [node EXCEPT !.inputs =
        [g \in {h \in DOMAIN node.inputs : node.inputs[h] # Undefined} |-> node.inputs[g]]]

\* the body { prompt: workflowData } as it goes over the wire
Serialize(nodes) == [k \in 1..Len(nodes) |-> SerializeNode(nodes[k])]

\* await this.helpers.request({ method: 'POST', url: `${apiUrl}/prompt`, ... })
SubmitRequest ==
    /\ pc = "submit"
    /\ Send("prompt")
    /\ submitted' = <<Serialize(workflowData.nodes)>>
    /\ pc' = "submit_wait"
    /\ UNCHANGED <<server, peer, priorNoEntry, params, items,
                   firstImageBuffer, secondImageBuffer,
                   firstImageInfo, secondImageInfo, workflowData, promptId,
                   attempts, history, onlyNoEntry, imageOutput, result, error>>

\* what POST /prompt may answer: a transport failure, a body without prompt_id, a job id
SubmitAnswers == {"fail", "no_id", "J1"}

\* SubmitResponse without the test of prompt_id: polling starts with whatever came
SubmitResponseLenient ==
    /\ pc = "submit_wait"
    /\ \E a \in SubmitAnswers :
         /\ Settle("prompt", a # "fail")
         /\ CASE a = "fail"  -> Throw("SubmitFailed") /\ UNCHANGED <<promptId, attempts>>
           [] OTHER       -> /\ promptId' = IF a = "no_id" THEN Undefined ELSE a
                             /\ attempts' = 0
                             /\ pc' = "grace"
                             /\ UNCHANGED <<result, error>>
    /\ UNCHANGED <<server, peer, priorNoEntry, params, items,
                   firstImageBuffer, secondImageBuffer,
                   firstImageInfo, secondImageInfo, workflowData, submitted,
                   history, onlyNoEntry, imageOutput>>

\* if (!response.prompt_id) throw; promptId = response.prompt_id; attempts = 0
SubmitResponse ==
    /\ pc = "submit_wait"
    /\ \E a \in SubmitAnswers :
         /\ Settle("prompt", a # "fail")
         /\ CASE a = "fail"  -> Throw("SubmitFailed") /\ UNCHANGED <<promptId, attempts>>
           [] a = "no_id" -> Throw("NoJobId") /\ UNCHANGED <<promptId, attempts>>
           [] OTHER       -> /\ promptId' = a
                             /\ attempts' = 0
                             /\ pc' = "grace"
                             /\ UNCHANGED <<result, error>>
    /\ UNCHANGED <<server, peer, priorNoEntry, params, items,
                   firstImageBuffer, secondImageBuffer,
                   firstImageInfo, secondImageInfo, workflowData, submitted,
                   history, onlyNoEntry, imageOutput>>

(* -------------------------------- polling ------------------------------ *)

File(stem, ext) == [stem |-> stem, ext |-> ext]

\* filename.endsWith('.' + ext)
EndsWith(filename, ext) == filename.ext = ext

Artifact(stem, ext, type) == [filename |-> File(stem, ext), type |-> type]

\* the output of one node as the history body carries it: the buckets, and
\* keys, the order in which the JSON object lists them
NodeOutputKeyed(keys, images, gifs, videos, audio) ==
    [keys |-> keys, images |-> images, gifs |-> gifs, videos |-> videos, audio |-> audio]

NodeOutput(images, gifs, videos, audio) ==
    NodeOutputKeyed(<<"images", "gifs", "videos", "audio">>, images, gifs, videos, audio)

\* the outputs a completed job may carry, each in Object.values order
OutputsMixed ==
    << NodeOutput(<<Artifact("in", "png", "input"), Artifact("out", "png", "output"),
                    Artifact("anim", "gif", "temp")>>,
                  <<>>, <<Artifact("clip", "mp4", "output")>>,
                  <<Artifact("song", "wav", "output")>>) >>

OutputsInputOnly ==
    << NodeOutput(<<Artifact("in", "png", "input")>>, <<>>,
                  <<Artifact("in", "mp4", "input")>>, <<Artifact("in", "mp3", "input")>>) >>

OutputsTwoNodes ==
    << NodeOutput(<<Artifact("frame", "jpg", "temp")>>, <<Artifact("loop", "webm", "output")>>,
                  <<>>, <<>>),
       NodeOutput(<<Artifact("out", "webp", "output")>>, <<>>,
                  <<Artifact("clip", "mov", "output")>>, <<Artifact("song", "mp3", "temp")>>) >>

\* one node with a single video artifact
OutputsClip ==
    << NodeOutput(<<>>, <<>>, <<Artifact("clip", "mp4", "output")>>, <<>>) >>

\* one node listing its videos before its gifs
OutputsVideosFirst ==
    << NodeOutputKeyed(<<"videos", "gifs", "audio">>, <<>>,
                       <<Artifact("loop", "mov", "output")>>,
                       <<Artifact("clip", "webm", "temp")>>,
                       <<Artifact("voice", "ogg", "output")>>) >>

\* artifacts whose suffix no pipeline knows
OutputsOtherSuffix ==
    << NodeOutput(<<Artifact("out", "bmp", "output")>>, <<>>,
                  <<Artifact("clip", "avi", "output")>>,
                  <<Artifact("song", "flac", "temp")>>) >>

OutputsChoices ==
    {<<>>, OutputsMixed, OutputsInputOnly, OutputsTwoNodes, OutputsClip,
     OutputsVideosFirst, OutputsOtherSuffix}

HistoryOf(entry, status, completed, str, outputs) ==
    [arrived |-> TRUE, entry |-> entry, status |-> status, completed |-> completed,
     status_str |-> str, outputs |-> outputs]

\* the bodies GET /history/{promptId} may answer
HistoryAnswers ==
    {HistoryOf(FALSE, FALSE, FALSE, "", <<>>),
     HistoryOf(TRUE, FALSE, FALSE, "", <<>>)}
    \cup {HistoryOf(TRUE, TRUE, FALSE, s, <<>>) : s \in {"success", "error"}}
    \cup {HistoryOf(TRUE, TRUE, TRUE, s, o) : s \in {"success", "error"}, o \in OutputsChoices}

\* a history body after which the loop goes on: no entry, no status, or not completed
Pending(h) == ~h.entry \/ ~h.status \/ ~h.completed

\* await new Promise(resolve => setTimeout(resolve, 5000)) before the loop
InitialWait ==
    /\ pc = "grace"
    /\ NoRequest
    /\ pc' = "loop"
    /\ UNCHANGED <<server, peer, priorNoEntry, params, items,
                   firstImageBuffer, secondImageBuffer,
                   firstImageInfo, secondImageInfo, workflowData, submitted,
                   promptId, attempts, history, onlyNoEntry, imageOutput,
                   result, error>>

\* PollContinue with the loop condition attempts <= maxAttempts
PollContinueOffByOne ==
    /\ pc = "loop"
    /\ AtMost(attempts, maxAttempts)
    /\ NoRequest
    /\ pc' = "sleep"
    /\ UNCHANGED <<server, peer, priorNoEntry, params, items,
                   firstImageBuffer, secondImageBuffer,
                   firstImageInfo, secondImageInfo, workflowData, submitted,
                   promptId, attempts, history, onlyNoEntry, imageOutput,
                   result, error>>

\* while (attempts < maxAttempts): the body is entered and the tick sleeps
PollContinue ==
    /\ pc = "loop"
    /\ Below(attempts, maxAttempts)
    /\ NoRequest
    /\ pc' = "sleep"
    /\ UNCHANGED <<server, peer, priorNoEntry, params, items,
                   firstImageBuffer, secondImageBuffer,
                   firstImageInfo, secondImageInfo, workflowData, submitted,
                   promptId, attempts, history, onlyNoEntry, imageOutput,
                   result, error>>

\* PollTimeout without the throw after the loop: execute() ends with nothing
PollTimeoutSilent ==
    /\ pc = "loop"
    /\ ~Below(attempts, maxAttempts)
    /\ NoRequest
    /\ pc' = "done"
    /\ UNCHANGED <<result, error>>
    /\ UNCHANGED <<server, peer, priorNoEntry, params, items,
                   firstImageBuffer, secondImageBuffer,
                   firstImageInfo, secondImageInfo, workflowData, submitted,
                   promptId, attempts, history, onlyNoEntry, imageOutput>>

\* PollTimeout with the throw one tick before the last permitted query
PollTimeoutEarly ==
    /\ pc = "loop"
    /\ ~Below(attempts + 1, maxAttempts)
    /\ NoRequest
    /\ Throw("Timeout")
    /\ UNCHANGED <<server, peer, priorNoEntry, params, items,
                   firstImageBuffer, secondImageBuffer,
                   firstImageInfo, secondImageInfo, workflowData, submitted,
                   promptId, attempts, history, onlyNoEntry, imageOutput>>

\* the loop ends: throw new NodeApiError(..., 'timeout after ... minutes')
PollTimeout ==
    /\ pc = "loop"
    /\ ~Below(attempts, maxAttempts)
    /\ NoRequest
    /\ Throw("Timeout")
    /\ UNCHANGED <<server, peer, priorNoEntry, params, items,
                   firstImageBuffer, secondImageBuffer,
                   firstImageInfo, secondImageInfo, workflowData, submitted,
                   promptId, attempts, history, onlyNoEntry, imageOutput>>

\* PollTick with the tick stamping every node of the graph
PollTickStamping ==
    /\ pc = "sleep"
    /\ attempts' = attempts + 1
    /\ Send("history")
    /\ pc' = "history_wait"
    /\ workflowData' =
          [workflowData EXCEPT !.nodes =
              [k \in 1..Len(workflowData.nodes) |->
                  SetInput(workflowData.nodes[k], "polled", "yes")]]
    /\ UNCHANGED <<server, peer, priorNoEntry, params, items,
                   firstImageBuffer, secondImageBuffer,
                   firstImageInfo, secondImageInfo, submitted,
                   promptId, history, onlyNoEntry, imageOutput, result, error>>

\* attempts++; the history query of the tick goes out
PollTick ==
    /\ pc = "sleep"
    /\ attempts' = attempts + 1
    /\ Send("history")
    /\ pc' = "history_wait"
    /\ UNCHANGED <<server, peer, priorNoEntry, params, items,
                   firstImageBuffer, secondImageBuffer,
                   firstImageInfo, secondImageInfo, workflowData, submitted,
                   promptId, history, onlyNoEntry, imageOutput, result, error>>

\* HistoryResponse with a failed query caught inside the loop and asked again
HistoryResponseRetry ==
    /\ pc = "history_wait"
    /\ \/ /\ Settle("history", FALSE)
          /\ pc' = "sleep"
          /\ onlyNoEntry' = FALSE
          /\ UNCHANGED priorNoEntry
          /\ UNCHANGED <<history, result, error>>
       \/ \E h \in HistoryAnswers :
            /\ Settle("history", TRUE)
            /\ history' = h
            /\ onlyNoEntry' = (onlyNoEntry /\ ~h.entry)
            /\ priorNoEntry' = (priorNoEntry /\ (Pending(h) => ~h.entry))
            /\ pc' = "handle"
            /\ UNCHANGED <<result, error>>
    /\ UNCHANGED <<server, peer, params, items,
                   firstImageBuffer, secondImageBuffer,
                   firstImageInfo, secondImageInfo, workflowData, submitted,
                   promptId, attempts, imageOutput>>

\* const history = await this.helpers.request(...): the body arrives, or the request fails
HistoryResponse ==
    /\ pc = "history_wait"
    /\ \/ /\ Settle("history", FALSE)
          /\ Throw("PollFailed")
          /\ onlyNoEntry' = FALSE
          /\ UNCHANGED priorNoEntry
          /\ UNCHANGED history
       \/ \E h \in HistoryAnswers :
            /\ Settle("history", TRUE)
            /\ history' = h
            /\ onlyNoEntry' = (onlyNoEntry /\ ~h.entry)
            /\ priorNoEntry' = (priorNoEntry /\ (Pending(h) => ~h.entry))
            /\ pc' = "handle"
            /\ UNCHANGED <<result, error>>
    /\ UNCHANGED <<server, peer, params, items,
                   firstImageBuffer, secondImageBuffer,
                   firstImageInfo, secondImageInfo, workflowData, submitted,
                   promptId, attempts, imageOutput>>

(* --------------------------- output resolution ------------------------- *)

Keep(s, P(_)) == SelectSeq(s, P)

videoSuffixes == {"gif", "mp4", "webm", "mov"}

\* the artifacts of one node's output a pipeline looks at
Relevant(o) ==
    CASE params.pipeline = "dual"  -> o.images
      [] params.pipeline = "video" ->
            o.gifs \o o.videos
            \o Keep(o.images, LAMBDA a : a.filename.ext \in videoSuffixes)
      [] OTHER                     -> o.audio

RECURSIVE FlatMapRelevant(_)
\* Object.values(promptResult.outputs).flatMap(nodeOutput => ...)
FlatMapRelevant(outs) ==
    IF outs = <<>> THEN <<>> ELSE Relevant(Head(outs)) \o FlatMapRelevant(Tail(outs))

\* Candidates without the filter on the type
CandidatesAnyType(outs) == FlatMapRelevant(outs)

\* .filter(x => x.type === 'output' || x.type === 'temp')
Candidates(outs) ==
    Keep(FlatMapRelevant(outs), LAMBDA a : a.type \in {"output", "temp"})

\* HandleHistory with the error marker looked at only when no artifact matches
HandleHistoryOutputsFirst ==
    /\ pc = "handle"
    /\ IF ~history.entry \/ ~history.status \/ ~history.completed
       THEN /\ pc' = "loop"
            /\ history' = NoHistory
            /\ NoRequest
            /\ UNCHANGED <<imageOutput, result, error>>
       ELSE IF Candidates(history.outputs) = <<>>
       THEN /\ Throw(IF history.status_str = "error" THEN "JobFailed" ELSE "NoMatch")
            /\ NoRequest
            /\ UNCHANGED <<history, imageOutput>>
       ELSE /\ imageOutput' = <<Head(Candidates(history.outputs))>>
            /\ Send("view")
            /\ pc' = "view_wait"
            /\ UNCHANGED <<history, result, error>>
    /\ UNCHANGED <<server, peer, priorNoEntry, params, items,
                   firstImageBuffer, secondImageBuffer,
                   firstImageInfo, secondImageInfo, workflowData, submitted,
                   promptId, attempts, onlyNoEntry>>

\* HandleHistory with an entry that has no status treated as a failure
HandleHistoryStrict ==
    /\ pc = "handle"
    /\ IF ~history.entry \/ (history.status /\ ~history.completed)
       THEN /\ pc' = "loop"
            /\ history' = NoHistory
            /\ NoRequest
            /\ UNCHANGED <<imageOutput, result, error>>
       ELSE IF ~history.status \/ history.status_str = "error"
       THEN /\ Throw("JobFailed")
            /\ NoRequest
            /\ UNCHANGED <<history, imageOutput>>
       ELSE IF Candidates(history.outputs) = <<>>
       THEN /\ Throw("NoMatch")
            /\ NoRequest
            /\ UNCHANGED <<history, imageOutput>>
       ELSE /\ imageOutput' = <<Head(Candidates(history.outputs))>>
            /\ Send("view")
            /\ pc' = "view_wait"
            /\ UNCHANGED <<history, result, error>>
    /\ UNCHANGED <<server, peer, priorNoEntry, params, items,
                   firstImageBuffer, secondImageBuffer,
                   firstImageInfo, secondImageInfo, workflowData, submitted,
                   promptId, attempts, onlyNoEntry>>

\* HandleHistory with status_str looked at before status.completed
HandleHistoryErrorFirst ==
    /\ pc = "handle"
    /\ IF ~history.entry \/ ~history.status
       THEN /\ pc' = "loop"
            /\ history' = NoHistory
            /\ NoRequest
            /\ UNCHANGED <<imageOutput, result, error>>
       ELSE IF history.status_str = "error"
       THEN /\ Throw("JobFailed")
            /\ NoRequest
            /\ UNCHANGED <<history, imageOutput>>
       ELSE IF ~history.completed
       THEN /\ pc' = "loop"
            /\ history' = NoHistory
            /\ NoRequest
            /\ UNCHANGED <<imageOutput, result, error>>
       ELSE IF Candidates(history.outputs) = <<>>
       THEN /\ Throw("NoMatch")
            /\ NoRequest
            /\ UNCHANGED <<history, imageOutput>>
       ELSE /\ imageOutput' = <<Head(Candidates(history.outputs))>>
            /\ Send("view")
            /\ pc' = "view_wait"
            /\ UNCHANGED <<history, result, error>>
    /\ UNCHANGED <<server, peer, priorNoEntry, params, items,
                   firstImageBuffer, secondImageBuffer,
                   firstImageInfo, secondImageInfo, workflowData, submitted,
                   promptId, attempts, onlyNoEntry>>

\* HandleHistory with a completed job without a matching artifact polled again
HandleHistoryRepoll ==
    /\ pc = "handle"
    /\ IF ~history.entry \/ ~history.status \/ ~history.completed
       THEN /\ pc' = "loop"
            /\ history' = NoHistory
            /\ NoRequest
            /\ UNCHANGED <<imageOutput, result, error>>
       ELSE IF history.status_str = "error"
       THEN /\ Throw("JobFailed")
            /\ NoRequest
            /\ UNCHANGED <<history, imageOutput>>
       ELSE IF Candidates(history.outputs) = <<>>
       THEN /\ pc' = "loop"
            /\ NoRequest
            /\ UNCHANGED <<history, imageOutput, result, error>>
       ELSE /\ imageOutput' = <<Head(Candidates(history.outputs))>>
            /\ Send("view")
            /\ pc' = "view_wait"
            /\ UNCHANGED <<history, result, error>>
    /\ UNCHANGED <<server, peer, priorNoEntry, params, items,
                   firstImageBuffer, secondImageBuffer,
                   firstImageInfo, secondImageInfo, workflowData, submitted,
                   promptId, attempts, onlyNoEntry>>

\* the body of the tick after the response arrived, up to continue, throw or the next await
HandleHistory ==
    /\ pc = "handle"
    /\ IF ~history.entry \/ ~history.status \/ ~history.completed
       THEN \* continue, or the end of the loop body
            /\ pc' = "loop"
            /\ history' = NoHistory
            /\ NoRequest
            /\ UNCHANGED <<imageOutput, result, error>>
       ELSE IF history.status_str = "error"
       THEN /\ Throw("JobFailed")
            /\ NoRequest
            /\ UNCHANGED <<history, imageOutput>>
       ELSE IF Candidates(history.outputs) = <<>>
       THEN /\ Throw("NoMatch")
            /\ NoRequest
            /\ UNCHANGED <<history, imageOutput>>
       ELSE /\ imageOutput' = <<Head(Candidates(history.outputs))>>
            /\ Send("view")
            /\ pc' = "view_wait"
            /\ UNCHANGED <<history, result, error>>
    /\ UNCHANGED <<server, peer, priorNoEntry, params, items,
                   firstImageBuffer, secondImageBuffer,
                   firstImageInfo, secondImageInfo, workflowData, submitted,
                   promptId, attempts, onlyNoEntry>>

(* --------------------------- result packaging -------------------------- *)

Format(mime, ext, type) == [mimeType |-> mime, fileExtension |-> ext, fileType |-> type]

\* Classify with the suffix never looked at: the pipeline's fallback
ClassifyFallbackOnly(filename) ==
    CASE params.pipeline = "dual"  -> Format("image/png", "png", "image")
      [] params.pipeline = "video" -> Format("video/mp4", "mp4", "video")
      [] OTHER                     -> Format("audio/mpeg", "mp3", "audio")

\* "Determine MIME type based on file extension", per pipeline
Classify(filename) ==
    CASE params.pipeline = "dual" ->
           IF EndsWith(filename, "jpg") THEN Format("image/jpeg", "jpg", "image")
           ELSE IF EndsWith(filename, "jpeg") THEN Format("image/jpeg", "jpeg", "image")
           ELSE IF EndsWith(filename, "webp") THEN Format("image/webp", "webp", "image")
           ELSE Format("image/png", "png", "image")
      [] params.pipeline = "video" ->
           IF EndsWith(filename, "gif") THEN Format("image/gif", "gif", "image")
           ELSE IF EndsWith(filename, "webm") THEN Format("video/webm", "webm", "video")
           ELSE IF EndsWith(filename, "mov") THEN Format("video/quicktime", "mov", "video")
           ELSE Format("video/mp4", "mp4", "video")
      [] OTHER ->
           IF EndsWith(filename, "wav") THEN Format("audio/wav", "wav", "audio")
           ELSE IF EndsWith(filename, "ogg") THEN Format("audio/ogg", "ogg", "audio")
           ELSE IF EndsWith(filename, "m4a") THEN Format("audio/mp4", "m4a", "audio")
           ELSE Format("audio/mpeg", "mp3", "audio")

\* Math.round(buffer.length / 1024 * 10) / 10 + " kB": the label of the bytes fetched
SizeLabel(a) == [kB |-> a]

\* the fields every pipeline puts into the json view
JsonCommon(a) ==
    [mimeType |-> Classify(a.filename).mimeType,
     fileName |-> a.filename,
     data     |-> a,
     status   |-> [completed |-> history.completed,
                   status_str |-> history.status_str]]

\* the fields a pipeline adds to the json view
JsonSpecific ==
    CASE params.pipeline = "dual" ->
           [inputImages |-> [first |-> firstImageInfo, second |-> secondImageInfo]]
      [] params.pipeline = "video" ->
           [frameCount |-> params.frameCount,
            frameRate  |-> params.frameRate,
            duration   |-> [num |-> params.frameCount, den |-> params.frameRate]]
      [] OTHER ->
           [prompt   |-> params.textPrompt,
            duration |-> params.audioDuration,
            quality  |-> params.audioQuality]

\* the binary view
BinaryData(a) ==
    [fileName      |-> a.filename,
     data          |-> a,
     fileType      |-> Classify(a.filename).fileType,
     fileSize      |-> SizeLabel(a),
     fileExtension |-> Classify(a.filename).fileExtension,
     mimeType      |-> Classify(a.filename).mimeType]

\* Package with the binary view named after the format rather than the artifact
PackageRenamed(a) ==
    [json   |-> JsonCommon(a) @@ JsonSpecific,
     binary |-> [BinaryData(a) EXCEPT
                   !.fileName = File(a.filename.stem, Classify(a.filename).fileExtension)]]

\* the item execute() returns: a json view and a binary view; the payload is
\* identified by the artifact whose bytes it encodes
Package(a) ==
    [json   |-> JsonCommon(a) @@ JsonSpecific,
     binary |-> BinaryData(a)]

\* what GET /view may answer
ViewAnswers == {"fail", "404", "bytes"}

\* ViewResponse with a 404 answer packaged like any other body
ViewResponseSalvage ==
    /\ pc = "view_wait"
    /\ \E a \in ViewAnswers :
         /\ Settle("view", a = "bytes")
         /\ CASE a = "fail" -> Throw("OutputFetchFailed")
           [] OTHER      -> /\ result' = <<Package(imageOutput[1])>>
                            /\ pc' = "done"
                            /\ UNCHANGED error
    /\ UNCHANGED <<server, peer, priorNoEntry, params, items,
                   firstImageBuffer, secondImageBuffer,
                   firstImageInfo, secondImageInfo, workflowData, submitted,
                   promptId, attempts, history, onlyNoEntry, imageOutput>>

\* the artifact's bytes arrive and the item is returned, or the fetch fails
ViewResponse ==
    /\ pc = "view_wait"
    /\ \E a \in ViewAnswers :
         /\ Settle("view", a = "bytes")
         /\ CASE a = "fail" -> Throw("OutputFetchFailed")
           [] a = "404"  -> Throw("OutputNotFound")
           [] OTHER      -> /\ result' = <<Package(imageOutput[1])>>
                            /\ pc' = "done"
                            /\ UNCHANGED error
    /\ UNCHANGED <<server, peer, priorNoEntry, params, items,
                   firstImageBuffer, secondImageBuffer,
                   firstImageInfo, secondImageInfo, workflowData, submitted,
                   promptId, attempts, history, onlyNoEntry, imageOutput>>

(* ---------------------------- specification ---------------------------- *)

Next ==
    \/ ProbeRequest
    \/ ProbeResponse
    \/ \E i \in {1, 2} : ResolveImage(i)
    \/ \E i \in {1, 2} : ImageFetchResponse(i)
    \/ \E i \in {1, 2} : UploadRequest(i)
    \/ \E i \in {1, 2} : UploadResponse(i)
    \/ ParseWorkflow
    \/ PatchWorkflow
    \/ SubmitRequest
    \/ SubmitResponse
    \/ InitialWait
    \/ PollContinue
    \/ PollTimeout
    \/ PollTick
    \/ HistoryResponse
    \/ HandleHistory
    \/ ViewResponse

Spec == Init /\ [][Next]_vars

\* the invocations explored for the claims about graph parsing and patching
GraphSpec == GraphInit /\ [][Next]_vars

InputSpec == InputInit /\ [][Next]_vars

AuthSpec == AuthInit /\ [][Next]_vars

\* what the peer leaves alone: everything of this invocation
PeerFrame ==
    UNCHANGED <<params, items, pc, inflight, failed, sent, carried, firstRequest,
                firstImageBuffer, secondImageBuffer, firstImageInfo,
                secondImageInfo, workflowData, submitted, promptId, attempts,
                history, onlyNoEntry, priorNoEntry, imageOutput, result, error>>

\* the peer's i-th upload reaches the server: same file name, its own bytes
PeerUpload(i) ==
    /\ peer = UploadPc(i)
    /\ server' = [server EXCEPT !.store[StoredName(i)] = Asset(2, UrlBuffer(i))]
    /\ peer' = IF i = 1 THEN UploadPc(2) ELSE "submit"
    /\ PeerFrame

\* the peer's graph is queued
PeerSubmit ==
    /\ peer = "submit"
    /\ peer' = "polling"
    /\ UNCHANGED server
    /\ PeerFrame

PairNext ==
    \/ Next
    \/ \E i \in {1, 2} : PeerUpload(i)
    \/ PeerSubmit

\* two invocations interleaved against one server
PairSpec == PairInit /\ [][PairNext]_vars

\* From the submission on, execute() is one thread of control that always takes
\* its next step: the sleeps end, and every request the loop awaits settles,
\* with a response or with a failure.
Fairness ==
    /\ WF_vars(InitialWait)
    /\ WF_vars(PollContinue)
    /\ WF_vars(PollTimeout)
    /\ WF_vars(PollTick)
    /\ WF_vars(HistoryResponse)
    /\ WF_vars(HandleHistory)
    /\ WF_vars(ViewResponse)

FairSpec == UrlInit /\ [][Next]_vars /\ Fairness

(* ------------------------------ properties ----------------------------- *)

Outstanding(k) == inflight[k]

\* number of requests in flight, all kinds together
TotalOutstanding ==
    Outstanding("system_stats") + Outstanding("fetch1") + Outstanding("fetch2")
    + Outstanding("upload1") + Outstanding("upload2") + Outstanding("prompt")
    + Outstanding("history") + Outstanding("view")

\* a history body the poller treats as "nothing yet": no entry, or an entry without status
NoEntryOrNoStatus(h) == h.arrived /\ (~h.entry \/ ~h.status)

\* a history body that reports the job completed
Completed(h) == h.arrived /\ h.entry /\ h.status /\ h.completed

\* everything but the position, the tick bookkeeping and the response being handled
RestOfInvocation ==
    << params, items, firstImageBuffer, secondImageBuffer, firstImageInfo,
       secondImageInfo, workflowData, submitted, promptId, imageOutput, result,
       error >>

\* attempts is the least natural number that is not below 60 x timeout
Exhausted == ~Below(attempts, maxAttempts) /\ (attempts = 0 \/ Below(attempts - 1, maxAttempts))

\* C1: in every pipeline, once the job is submitted the invocation ends, and if
\* every history query was answered by a body without the job id it ends with
\* the Timeout error, after the ticks the loop allows: it never polls forever.
C1_NoEntryEndsInTimeout ==
    (pc = "grace") ~> (pc = "done" /\ (onlyNoEntry => (error = "Timeout" /\ Exhausted)))

\* a run of 60 x timeout ticks, each answered without the job id, that ended in Timeout
C1_Witness ==
    /\ pc = "done"
    /\ onlyNoEntry
    /\ Equals(attempts, maxAttempts)
    /\ attempts > 0
    /\ error = "Timeout"

\* one history query in flight at most, and attempts counts the queries issued
SequentialInv ==
    /\ TotalOutstanding <= 1
    /\ Outstanding("history") = (IF pc = "history_wait" THEN 1 ELSE 0)
    /\ attempts = sent["history"]
    /\ error = "Timeout" => sent["view"] = 0

\* a history query is issued only when the previous body was handled, together
\* with the one increment of attempts
SequentialStep ==
    /\ sent'["history"] # sent["history"] =>
          /\ sent'["history"] = sent["history"] + 1
          /\ attempts' = attempts + 1
          /\ Outstanding("history") = 0
          /\ history = NoHistory
    /\ attempts' # attempts => sent'["history"] = sent["history"] + 1

\* polling ended without a completed response and without a failed query
EndedUncompleted ==
    pc = "done" /\ promptId # "" /\ ~Completed(history) /\ "history" \notin failed

\* attempts stays within 60 x timeout, and Timeout is raised when it is reached
C2_BoundAsClaimed ==
    /\ promptId # "" => AtMost(attempts, maxAttempts)
    /\ pc = "sleep" => Below(attempts, maxAttempts)
    /\ EndedUncompleted => (error = "Timeout" /\ Equals(attempts, maxAttempts))
    /\ error = "Timeout" => Equals(attempts, maxAttempts)

\* attempts stays within the least natural number not below 60 x timeout, and
\* Timeout is raised when that number is reached
C2_Bound ==
    /\ attempts = 0 \/ Below(attempts - 1, maxAttempts)
    /\ pc = "sleep" => Below(attempts, maxAttempts)
    /\ EndedUncompleted => (error = "Timeout" /\ Exhausted)
    /\ error = "Timeout" => Exhausted

\* C2 (as claimed): ticks are strictly sequential (at most one history query in
\* flight, a new one only after the previous body was handled), attempts is
\* incremented once per tick and equals the number of history queries issued,
\* it never exceeds 60 x timeout, and polling that reaches 60 x timeout without
\* a completed response stops with Timeout.
C2_SequentialTicks ==
    (SequentialInv /\ C2_BoundAsClaimed)
    /\ [][(SequentialInv /\ C2_BoundAsClaimed)' /\ SequentialStep]_vars

\* C2 (amended): ticks are strictly sequential and attempts equals the number
\* of history queries issued, as claimed; attempts never exceeds the least
\* natural number that is not below 60 x timeout (60 x timeout itself when that
\* is a natural number), and polling that reaches it without a completed
\* response stops with Timeout.
C2_SequentialTicksCeiling ==
    (SequentialInv /\ C2_Bound) /\ [][(SequentialInv /\ C2_Bound)' /\ SequentialStep]_vars

\* a timeout after more ticks than 60 x timeout, whose answers were not all "no entry"
C2_Witness ==
    /\ error = "Timeout"
    /\ Exhausted
    /\ ~AtMost(attempts, maxAttempts)
    /\ sent["history"] > 1
    /\ ~onlyNoEntry

\* C3: a history entry with status.completed = true and status_str = "error"
\* ends the invocation with JobFailed whatever its outputs contain; no artifact
\* is selected or fetched and no item is returned.
C3_CompletedErrorIsJobFailed ==
    [][ /\ (pc = "handle" /\ Completed(history) /\ history.status_str = "error")
             => /\ pc' = "done"
                /\ error' = "JobFailed"
                /\ imageOutput' = <<>>
                /\ result' = <<>>
                /\ sent' = sent
        /\ error' = "JobFailed"
             => /\ pc' = "done"
                /\ imageOutput' = <<>>
                /\ result' = <<>>
                /\ sent'["view"] = 0
        /\ error = "JobFailed" => UNCHANGED <<error, result, imageOutput, sent>> ]_vars

\* JobFailed for a completed error entry whose outputs hold a matching artifact
C3_Witness ==
    /\ error = "JobFailed"
    /\ Completed(history)
    /\ history.status_str = "error"
    /\ Candidates(history.outputs) # <<>>

\* C4: a tick whose history body has no entry for the job, or an entry without
\* status, raises no error and returns to the loop; the tick changes nothing
\* but the attempt counter, which grows by one.
C4_PendingTickOnlyCounts ==
    [][ /\ pc = "sleep" =>
             /\ attempts' = attempts + 1
             /\ UNCHANGED RestOfInvocation
        /\ (pc = "history_wait" /\ NoEntryOrNoStatus(history')) =>
             /\ pc' = "handle"
             /\ attempts' = attempts
             /\ sent' = sent
             /\ UNCHANGED RestOfInvocation
        /\ (pc = "handle" /\ NoEntryOrNoStatus(history)) =>
             /\ pc' = "loop"
             /\ error' = ""
             /\ attempts' = attempts
             /\ sent' = sent
             /\ inflight' = inflight
             /\ UNCHANGED RestOfInvocation ]_vars

\* back at the loop head after two ticks answered without the job id, no error raised
C4_Witness ==
    /\ pc = "loop"
    /\ attempts = 2
    /\ onlyNoEntry
    /\ error = ""
    /\ history = NoHistory

\* C5 (as claimed): when the workflow text is not valid JSON, no upload and no
\* submission has been issued when the failure is raised.
C5_InvalidJsonBeforeMutation ==
    error = "InvalidJson" =>
        (sent["upload1"] = 0 /\ sent["upload2"] = 0 /\ sent["prompt"] = 0)

C7_ProbeFirst ==
    /\ firstRequest \in {"none", "system_stats"}
    /\ (\E k \in RequestKinds : sent[k] > 0) => sent["system_stats"] = 1
    /\ "system_stats" \in failed =>
          /\ pc = "done"
          /\ error = "ProbeFailed"
          /\ \A k \in RequestKinds \ {"system_stats"} : sent[k] = 0

\* an invocation that ended on the failed probe
C7_Witness ==
    /\ "system_stats" \in failed
    /\ error = "ProbeFailed"
    /\ pc = "done"

IsLoadImageWith(node, name) ==
    node.class_type = LoadImage /\ HasInput(node, "image") /\ node.inputs.image = name

\* both uploaded names sit in LoadImage nodes of the graph
GraphPatched ==
    /\ \E k \in 1..Len(workflowData.nodes) :
          IsLoadImageWith(workflowData.nodes[k], firstImageInfo)
    /\ \E k \in 1..Len(workflowData.nodes) :
          IsLoadImageWith(workflowData.nodes[k], secondImageInfo)

UploadDone(i) ==
    /\ sent[UploadKind(i)] = 1
    /\ Outstanding(UploadKind(i)) = 0
    /\ UploadKind(i) \notin failed
    /\ (IF i = 1 THEN firstImageInfo ELSE secondImageInfo) # ""

\* C8: in the dual-input pipelines the stages run in the order input
\* resolution, upload, graph patching, submission, polling, output resolution,
\* packaging: no upload before its input is resolved, submission only after
\* both uploads succeeded and the graph was patched, no history query before a
\* job id was returned, the artifact fetched only after a completed non-error
\* history response.
C8_StageOrder ==
    params.pipeline \in DualInput =>
        /\ sent["fetch1"] + sent["fetch2"] > 0 => "system_stats" \notin failed
        /\ sent["upload1"] > 0 => firstImageBuffer # NoBuffer
        /\ sent["upload2"] > 0 => (secondImageBuffer # NoBuffer /\ UploadDone(1))
        /\ workflowData # Unparsed => (UploadDone(1) /\ UploadDone(2))
        /\ sent["prompt"] > 0 =>
              /\ UploadDone(1) /\ UploadDone(2)
              /\ workflowData.kind = "object"
              /\ GraphPatched
              /\ submitted = <<Serialize(workflowData.nodes)>>
        /\ sent["history"] > 0 =>
              (promptId # "" /\ sent["prompt"] = 1 /\ Outstanding("prompt") = 0)
        /\ sent["view"] > 0 =>
              /\ Completed(history) /\ history.status_str # "error"
              /\ imageOutput # <<>>
        /\ result # <<>> => (sent["view"] = 1 /\ "view" \notin failed)

\* a dual-input invocation that went through every stage and returned an item
C8_Witness ==
    /\ params.pipeline \in DualInput
    /\ result # <<>>
    /\ sent["history"] > 1

\* every stage of the invocation succeeded
AllStagesSucceeded ==
    /\ sent["system_stats"] = 1 /\ "system_stats" \notin failed
    /\ params.pipeline \in DualInput =>
          /\ firstImageBuffer # NoBuffer /\ secondImageBuffer # NoBuffer
          /\ UploadDone(1) /\ UploadDone(2)
          /\ GraphPatched
    /\ workflowData.kind = "object"
    /\ submitted = <<Serialize(workflowData.nodes)>>
    /\ sent["prompt"] = 1 /\ "prompt" \notin failed /\ promptId # ""
    /\ Completed(history) /\ history.status_str # "error"
    /\ imageOutput # <<>>
    /\ imageOutput = <<Head(Candidates(history.outputs))>>
    /\ sent["view"] = 1 /\ "view" \notin failed
    /\ failed = {}

\* C9: an item is returned only if every stage succeeded; in every other case
\* the invocation ends with one error that carries a message, never with both
\* an error and an item, and never with a partial item.
C9_ResultOnlyOnFullSuccess ==
    /\ pc # "done" => (result = <<>> /\ error = "")
    /\ pc = "done" => ((result = <<>>) # (error = ""))
    /\ failed # {} => result = <<>>
    /\ result # <<>> =>
          /\ AllStagesSucceeded
          /\ Len(result) = 1
          /\ result[1] = Package(imageOutput[1])

\* an invocation that ended with an error after its uploads had succeeded
C9_Witness ==
    /\ pc = "done"
    /\ error = "NoMatch"
    /\ result = <<>>
    /\ params.pipeline \in DualInput
    /\ UploadDone(1) /\ UploadDone(2)

C10_Inv ==
    /\ \A k \in RequestKinds \ {"history"} : sent[k] <= 1
    /\ failed # {} => (pc = "done" /\ error # "" /\ TotalOutstanding = 0)
    /\ Cardinality(failed) <= 1

\* C10: no request is retried: the probe, each input fetch, each upload, the
\* submission and the artifact fetch are issued at most once, and a transport
\* failure of any request, a history query included, ends the invocation with
\* an error and is followed by no further request.
C10_NoRetry == C10_Inv /\ [][ C10_Inv' /\ (failed # {} => sent' = sent) ]_vars

\* a history query that failed in the middle of polling and ended the invocation
C10_Witness ==
    /\ failed = {"history"}
    /\ error = "PollFailed"
    /\ pc = "done"
    /\ attempts > 1
    /\ Below(attempts, maxAttempts)

\* the name the i-th upload returned
ImageInfo(i) == IF i = 1 THEN firstImageInfo ELSE secondImageInfo

\* the asset the submitted graph refers to for image i holds the bytes this
\* invocation uploaded for it
RefersToOwnBytes(i) ==
    ImageInfo(i) \in StoredNames =>
        server.store[ImageInfo(i)] = Asset(1, UploadedBuffer(i))

\* C11 (as claimed): with a second invocation interleaved on the same server,
\* the graph an invocation has submitted refers to the asset bytes it uploaded
\* itself, and it polls the job id its own submission returned.
C11_InvocationsIndependent ==
    (params.pipeline \in DualInput /\ sent["prompt"] > 0) =>
        /\ RefersToOwnBytes(1) /\ RefersToOwnBytes(2)
        /\ submitted = <<Serialize(workflowData.nodes)>>
        /\ sent["history"] > 0 => promptId \in SubmitAnswers \ {"fail", "no_id"}

\* position of the node the patcher targets for image i, found in the parsed graph
TargetIndex(nodes, i) ==
    IF params.pipeline = "dual"
    THEN loadImageNodes(nodes)[i]
    ELSE NodeById(nodes, IF i = 1 THEN params.firstImageNodeId
                         ELSE params.secondImageNodeId)

\* the nodes whose inputs.image differs between two graphs of the same length
ImageWritten(old, new) ==
    {k \in 1..Len(old) :
        /\ HasInput(new[k], "image")
        /\ ~HasInput(old[k], "image") \/ old[k].inputs.image # new[k].inputs.image}

\* the patch step of a dual-input pipeline wrote the two names the uploads
\* returned, each into its own target node, and wrote inputs.image nowhere else
PatchMatches(old, new) ==
    /\ UploadDone(1) /\ UploadDone(2)
    /\ firstImageInfo \in StoredNames /\ secondImageInfo \in StoredNames
    /\ new[TargetIndex(old, 1)].inputs.image = firstImageInfo
    /\ new[TargetIndex(old, 2)].inputs.image = secondImageInfo
    /\ ImageWritten(old, new) \subseteq {TargetIndex(old, 1), TargetIndex(old, 2)}

\* C12 (as claimed): in the dual-input pipelines every value written into
\* inputs.image of a LoadImage node is the asset name a successful upload of
\* the same invocation returned, the first target node receiving the name of
\* the first upload and the second target node the name of the second.
C12_PatchUsesUploadedNames ==
    [][ (pc = "patch" /\ pc' = "submit" /\ params.pipeline \in DualInput)
           => PatchMatches(workflowData.nodes, workflowData'.nodes) ]_vars

\* the value of inputs.image of the node with that id in a graph, "" when there is none
ImageAt(nodes, id) ==
    IF NodeById(nodes, id) # 0 /\ HasInput(nodes[NodeById(nodes, id)], "image")
    THEN nodes[NodeById(nodes, id)].inputs.image
    ELSE ""

\* the video pipeline, LoadImage nodes at load_image_1 and load_image_2, URL
\* inputs uploaded as a.png and b.png, job id J1, two answers without an entry
\* and a third one that reports the job completed with the single artifact clip.mp4
E2EScenario ==
    /\ params.pipeline = "video"
    /\ params.workflow = "two_load.json"
    /\ <<params.firstImageNodeId, params.secondImageNodeId>> = DefaultNodeIds
    /\ params.firstInputType = "url" /\ params.secondInputType = "url"
    /\ firstImageInfo = "a.png" /\ secondImageInfo = "b.png"
    /\ promptId = "J1"
    /\ attempts = 3
    /\ priorNoEntry
    /\ history = HistoryOf(TRUE, TRUE, TRUE, "success", OutputsClip)

\* C13: in that scenario the submitted graph has a.png at load_image_1 and
\* b.png at load_image_2, exactly three history queries are issued, and the
\* item returned has mimeType video/mp4, fileExtension mp4 and fileName clip.mp4.
C13_VideoEndToEnd ==
    E2EScenario =>
        /\ Len(submitted) = 1
        /\ ImageAt(submitted[1], "load_image_1") = "a.png"
        /\ ImageAt(submitted[1], "load_image_2") = "b.png"
        /\ sent["history"] = 3
        /\ pc \in {"handle", "view_wait", "done"}
        /\ pc = "done" =>
              \/ error \in {"OutputFetchFailed", "OutputNotFound"} /\ result = <<>>
              \/ /\ error = ""
                 /\ Len(result) = 1
                 /\ result[1].json.mimeType = "video/mp4"
                 /\ result[1].json.fileName = File("clip", "mp4")
                 /\ result[1].binary.mimeType = "video/mp4"
                 /\ result[1].binary.fileExtension = "mp4"
                 /\ result[1].binary.fileName = File("clip", "mp4")

\* the scenario ran to its end and returned the item
C13_Witness ==
    /\ E2EScenario
    /\ pc = "done"
    /\ result # <<>>
    /\ sent["view"] = 1

\* positions of the nodes of kind LoadImage, in enumeration order
OfKindLoadImage(nodes) ==
    SelectSeq(Indices(nodes), LAMBDA k : nodes[k].class_type = LoadImage)

\* positions of the nodes of kind LoadImage that carry an image input
OfKindLoadImageWithImage(nodes) ==
    SelectSeq(Indices(nodes),
              LAMBDA k : nodes[k].class_type = LoadImage /\ HasInput(nodes[k], "image"))

\* an invocation that ends with error e has submitted nothing and takes no
\* further step
NeverSubmittedWith(e) ==
    /\ error' = e => (pc' = "done" /\ sent'["prompt"] = 0 /\ submitted' = <<>>)
    /\ error = e => UNCHANGED <<sent, submitted, workflowData>>

\* the node carries the input field with that value
InputIs(node, field, value) ==
    HasInput(node, field) /\ node.inputs[field] = value

\* the patch step of the dual-image pipeline, for the sequence found of the
\* positions that count as matches: fewer than two end the invocation with
\* InsufficientMatches and an untouched graph, otherwise the first two receive
\* the first and the second uploaded name and no other node is written
DualPatchStep(found) ==
    LET old == workflowData.nodes
        new == workflowData'.nodes
    IN  IF Len(found) < 2
        THEN /\ pc' = "done"
             /\ error' = "InsufficientMatches"
             /\ new = old
             /\ sent' = sent
        ELSE /\ pc' = "submit"
             /\ error' = ""
             /\ InputIs(new[found[1]], "image", firstImageInfo)
             /\ InputIs(new[found[2]], "image", secondImageInfo)
             /\ \A k \in 1..Len(old) : k \notin {found[1], found[2]} => new[k] = old[k]

Under(nodes, id) == {k \in 1..Len(nodes) : nodes[k].id = id}

\* the graph has no node under the id, or the node under it is not a LoadImage
NoLoadImageUnder(nodes, id) ==
    \A k \in Under(nodes, id) : nodes[k].class_type # LoadImage

\* C15: in the video pipeline the patch step fails with NodeNotFound whenever
\* the first or the second node id names no node of the graph or a node whose
\* kind is not LoadImage; the node under that id is left as parsed, and the
\* graph is not submitted, neither then nor later.
C15_NodeNotFound ==
    [][ /\ ( /\ pc = "patch"
             /\ params.pipeline = "video"
             /\ \E id \in {params.firstImageNodeId, params.secondImageNodeId} :
                   NoLoadImageUnder(workflowData.nodes, id) )
           => /\ pc' = "done"
              /\ error' = "NodeNotFound"
              /\ result' = <<>>
              /\ \A id \in {params.firstImageNodeId, params.secondImageNodeId} :
                   NoLoadImageUnder(workflowData.nodes, id)
                     => \A k \in Under(workflowData.nodes, id) :
                           workflowData'.nodes[k] = workflowData.nodes[k]
        /\ NeverSubmittedWith("NodeNotFound") ]_vars

\* the second id names a KSampler: the invocation ended with NodeNotFound after
\* the first node had received its name, the KSampler is as parsed and nothing
\* was submitted
C15_Witness ==
    /\ params.pipeline = "video"
    /\ params.workflow = "sweep.json"
    /\ params.firstImageNodeId = "load_image_1"
    /\ params.secondImageNodeId = "sampler"
    /\ pc = "done"
    /\ error = "NodeNotFound"
    /\ ImageAt(workflowData.nodes, "load_image_1") = firstImageInfo
    /\ \A k \in Under(workflowData.nodes, "sampler") :
          workflowData.nodes[k] = JsonParse("sweep.json").nodes[k]
    /\ sent["prompt"] = 0

\* positions of the nodes of the kind, in enumeration order
OfKind(nodes, kind) ==
    SelectSeq(Indices(nodes), LAMBDA k : nodes[k].class_type = kind)

\* C16: in the audio pipeline the patch step writes the prompt into the first
\* node of kind TextEncodeAceStepAudio in enumeration order, leaving the later
\* nodes of that kind as parsed; with no node of that kind it fails with
\* KindNotFound, leaves the graph as parsed and nothing is submitted.
C16_PromptIntoFirstEncoder ==
    [][ /\ (pc = "patch" /\ params.pipeline = "audio")
           => LET old == workflowData.nodes
                  new == workflowData'.nodes
                  enc == OfKind(old, "TextEncodeAceStepAudio")
              IN  IF enc = <<>>
                  THEN /\ pc' = "done"
                       /\ error' = "KindNotFound"
                       /\ new = old
                  ELSE /\ pc' = "submit"
                       /\ error' = ""
                       /\ InputIs(new[enc[1]], "tags", params.textPrompt)
                       /\ \A j \in 2..Len(enc) : new[enc[j]] = old[enc[j]]
        /\ NeverSubmittedWith("KindNotFound") ]_vars

\* a graph with two encoders was submitted with the prompt in the first one and
\* the second one as parsed
C16_Witness ==
    /\ params.pipeline = "audio"
    /\ params.workflow = "audio_sparse.json"
    /\ sent["prompt"] = 1
    /\ submitted[1][1].inputs.tags = params.textPrompt
    /\ submitted[1][2].inputs.tags = "older"

\* the parameter fields of a pipeline other than its primary target field
SecondaryFields(pipeline) ==
    CASE pipeline = "video" -> {"frame_count", "frames", "frame_rate", "fps"}
      [] pipeline = "audio" -> {"seconds", "seed", "steps", "cfg", "quality"}
      [] OTHER              -> {}

\* the graph as JSON.parse returned it
ParsedNodes == JsonParse(params.workflow).nodes

\* in the submitted graph no node carries a field of the set that it lacked in
\* the parsed graph
NoFieldCreated(fields) ==
    \A k \in 1..Len(ParsedNodes) : \A f \in fields :
        ~HasInput(ParsedNodes[k], f) => ~HasInput(submitted[1][k], f)

\* C17: in the video and the audio pipeline a parameter field other than the
\* primary target field is overwritten only where it already exists: a node
\* that lacks the field in the parsed graph lacks it in the submitted graph.
C17_OnlyPresentFieldsWritten ==
    (params.pipeline \in {"video", "audio"} /\ submitted # <<>>)
        => NoFieldCreated(SecondaryFields(params.pipeline))

\* the kinds the sweep of the video pipeline recognises
SweptKinds ==
    {"AnimateDiffSampler", "SVD_img2vid_Conditioning", "VideoHelperSuite",
     "VHS_VideoCombine", "AnimateDiffCombine"}

\* the value the sweep writes into a field
SweptValue(f) ==
    IF f \in {"frame_count", "frames"} THEN params.frameCount ELSE params.frameRate

\* C18: in the graph the video pipeline submits, every node of a swept kind
\* has each of its fields frame_count and frames that the parsed graph carried
\* equal to the caller's frame count and each such frame_rate and fps equal to
\* the caller's frame rate; on a node of any other kind these fields keep the
\* parsed values.
C18_SweepCoversAllNodes ==
    (params.pipeline = "video" /\ submitted # <<>>) =>
        \A k \in 1..Len(ParsedNodes) : \A f \in SecondaryFields("video") :
            HasInput(ParsedNodes[k], f) =>
                InputIs(submitted[1][k], f,
                        IF ParsedNodes[k].class_type \in SweptKinds
                        THEN SweptValue(f)
                        ELSE ParsedNodes[k].inputs[f])

\* a graph with two nodes of swept kinds and a KSampler was submitted: both
\* swept nodes carry the caller's values, the KSampler its own
C18_Witness ==
    /\ params.pipeline = "video"
    /\ params.workflow = "sweep.json"
    /\ sent["prompt"] = 1
    /\ \E a, c, k \in 1..Len(submitted[1]) :
          /\ submitted[1][a].class_type = "AnimateDiffSampler"
          /\ submitted[1][a].inputs.frame_count = params.frameCount
          /\ submitted[1][a].inputs.fps = params.frameRate
          /\ submitted[1][c].class_type = "VHS_VideoCombine"
          /\ submitted[1][c].inputs.frames = params.frameCount
          /\ submitted[1][c].inputs.frame_rate = params.frameRate
          /\ submitted[1][k].class_type = "KSampler"
          /\ submitted[1][k].inputs.frames = "5"
          /\ submitted[1][k].inputs.fps = "6"
          /\ {"1", "2", "3", "4", "5", "6"} \cap {params.frameCount, params.frameRate} = {}

\* the workflow text is valid JSON with a top-level value that is no object
TopLevelNotObject ==
    JsonParse(params.workflow).kind \in {"number", "string", "boolean", "null", "array"}

\* C19: in every pipeline a workflow text that is valid JSON with a top-level
\* number, string, boolean, null or array ends the invocation with NotAnObject
\* at the parse step; no node is located or patched and nothing is submitted.
C19_NonObjectRejected ==
    [][ TopLevelNotObject =>
          /\ pc = "parse" => (pc' = "done" /\ error' = "NotAnObject")
          /\ pc' # "patch"
          /\ sent'["prompt"] = 0 ]_vars

\* C20: from the submission request on, no step changes the graph, and the
\* graph held by the invocation is the graph that went out in POST /prompt,
\* whatever the number of polling ticks and the history responses.
C20_GraphFrozenAfterSubmission ==
    [][ sent'["prompt"] > 0 =>
          /\ submitted' = <<Serialize(workflowData'.nodes)>>
          /\ sent["prompt"] > 0 => workflowData' = workflowData ]_vars

\* an invocation that patched its graph, submitted it, polled at least twice
\* and returned an item still holds the graph it submitted
C20_Witness ==
    /\ sent["prompt"] = 1
    /\ attempts >= 2
    /\ sent["history"] = attempts
    /\ pc = "done"
    /\ result # <<>>
    /\ workflowData.nodes # ParsedNodes
    /\ submitted = <<Serialize(workflowData.nodes)>>

\* the artifacts of a bucket, each tagged with the bucket it sits in
Tagged(bucket, arts) == [j \in 1..Len(arts) |-> [bucket |-> bucket, artifact |-> arts[j]]]

RECURSIVE InKeyOrder(_, _)
\* the tagged artifacts of one node's output, bucket after bucket in the order keys
InKeyOrder(o, keys) ==
    IF keys = <<>> THEN <<>>
    ELSE Tagged(Head(keys), o[Head(keys)]) \o InKeyOrder(o, Tail(keys))

RECURSIVE BundleOrder(_)
\* the output bundle enumerated as the body lists it: node after node, within
\* a node bucket after bucket in the order of its keys
BundleOrder(outs) ==
    IF outs = <<>> THEN <<>>
    ELSE InKeyOrder(Head(outs), Head(outs).keys) \o BundleOrder(Tail(outs))

RECURSIVE BucketPriorityOrder(_)
\* the output bundle enumerated node after node, within a node the gifs, then
\* the videos, then the images, then the audio
BucketPriorityOrder(outs) ==
    IF outs = <<>> THEN <<>>
    ELSE InKeyOrder(Head(outs), <<"gifs", "videos", "images", "audio">>)
         \o BucketPriorityOrder(Tail(outs))

\* the tagged artifact sits in a bucket relevant to the pipeline and its type
\* is output or temp
Qualifies(t) ==
    /\ t.artifact.type \in {"output", "temp"}
    /\ CASE params.pipeline = "dual"  -> t.bucket = "images"
         [] params.pipeline = "audio" -> t.bucket = "audio"
         [] OTHER -> \/ t.bucket \in {"videos", "gifs"}
                     \/ /\ t.bucket = "images"
                        /\ t.artifact.filename.ext \in {"gif", "mp4", "webm", "mov"}

\* the step that handles a completed non-error entry, for the enumeration
\* order of the bundle: the first qualifying artifact is selected and fetched,
\* and with none the invocation ends with NoMatch and no fetch
SelectionStep(order) ==
    LET q == SelectSeq(order, Qualifies)
    IN  (pc = "handle" /\ history.entry /\ history.status /\ history.completed
           /\ history.status_str # "error")
          => IF q = <<>>
             THEN /\ pc' = "done"
                  /\ error' = "NoMatch"
                  /\ imageOutput' = <<>>
                  /\ sent'["view"] = 0
             ELSE /\ imageOutput' = <<q[1].artifact>>
                  /\ pc' = "view_wait"
                  /\ sent'["view"] = 1

\* C21 (as claimed): the artifact fetched for a completed non-error job is the
\* first qualifying artifact in the enumeration order of the output bundle;
\* with no qualifying artifact the invocation fails with NoMatch and fetches
\* nothing.
C21_FirstQualifyingInBundleOrder ==
    [][ SelectionStep(BundleOrder(history.outputs)) ]_vars

\* C21 (amended): nodes are taken in the enumeration order of the bundle and,
\* within a node, the gifs come before the videos and the videos before the
\* images whatever the order of the node's keys; the artifact fetched is the
\* first qualifying artifact in that order, an artifact of any other type is
\* never selected, and with none qualifying the invocation fails with NoMatch
\* and fetches nothing.
C21_FirstQualifyingGifsFirst ==
    [][ /\ SelectionStep(BucketPriorityOrder(history.outputs))
        /\ imageOutput' # <<>> => imageOutput'[1].type \in {"output", "temp"} ]_vars

\* the video pipeline fetched the file in the gifs bucket of a node that lists
\* a qualifying video before it
C21_Witness ==
    /\ params.pipeline = "video"
    /\ history.outputs = OutputsVideosFirst
    /\ sent["view"] = 1
    /\ imageOutput = <<Artifact("loop", "mov", "output")>>
    /\ Qualifies(BundleOrder(history.outputs)[1])
    /\ BundleOrder(history.outputs)[1].artifact = Artifact("clip", "webm", "temp")

\* the result's mime type, in both views, and its extension
HasFormat(mime, ext) ==
    /\ result[1].json.mimeType = mime
    /\ result[1].binary.mimeType = mime
    /\ result[1].binary.fileExtension = ext

RecordOf(i) ==
    IF params.pipeline = "video" /\ i = 2 /\ Len(items) > 1 THEN 2 ELSE 1

\* the positions in a record of the attachments under the name, and of the
\* attachments whose media type begins with image/
NamedIn(rec, n) == {k \in 1..Len(rec.binary) : rec.binary[k].name = n}

ImagesIn(rec) == {k \in 1..Len(rec.binary) : rec.binary[k].mime = "image"}

\* image i is a named attachment and the invocation is about to resolve it
ResolvingAttachment(i) ==
    pc = ResolvePc(i) /\ InputTypeOf(i) = "binary"

\* the requested name is absent from the record of image i, which holds
\* exactly one image attachment
AbsentWithOneImage(i) ==
    /\ ResolvingAttachment(i)
    /\ NamedIn(items[RecordOf(i)], BinaryNameOf(i)) = {}
    /\ Cardinality(ImagesIn(items[RecordOf(i)])) = 1

\* the only image attachment of the record of image i
OnlyImage(i) ==
    LET rec == items[RecordOf(i)]
    IN  rec.binary[CHOOSE k \in ImagesIn(rec) : TRUE]

\* the resolution of image i ends well with the bytes of attachment q
ResolvesTo(i, q) ==
    /\ pc' = AfterResolvePc(i)
    /\ error' = ""
    /\ (IF i = 1 THEN firstImageBuffer' ELSE secondImageBuffer')
          = AttachmentBuffer(RecordOf(i) - 1, q.name)

\* the dual-image pipeline passes over the attachment for its second image:
\* the first image is a named attachment asked for under that name
PassedOver(i, q) ==
    /\ params.pipeline = "dual"
    /\ i = 2
    /\ params.firstInputType = "binary"
    /\ q.name = params.firstBinaryPropertyName

\* C23 (as claimed): in both dual-input pipelines and for either image, a
\* named-attachment input whose requested name is absent from a record with
\* exactly one image attachment resolves to the bytes of that attachment.
C23_SingleImageAlternative ==
    [][ \A i \in {1, 2} : AbsentWithOneImage(i) => ResolvesTo(i, OnlyImage(i)) ]_vars

\* C23 (amended): the same, except for the second image of the dual-image
\* pipeline when the only image attachment is the one the first image asks for
\* by name: the search passes over it and resolution fails with NotFound.
C23_SingleImageAlternativeNotFirst ==
    [][ \A i \in {1, 2} : AbsentWithOneImage(i) =>
          IF PassedOver(i, OnlyImage(i))
          THEN pc' = "done" /\ error' = "NotFound" /\ sent' = sent
          ELSE ResolvesTo(i, OnlyImage(i)) ]_vars

\* both images of the dual-image pipeline were resolved to the one image
\* attachment of the record, neither requested name being there, and uploaded
C23_Witness ==
    /\ params.pipeline = "dual"
    /\ items = <<ItemPhotoOnly>>
    /\ params.firstInputType = "binary"
    /\ params.secondInputType = "binary"
    /\ firstImageBuffer = AttachmentBuffer(0, "photo")
    /\ secondImageBuffer = AttachmentBuffer(0, "photo")
    /\ sent["upload2"] = 1

\* an invocation that ends with error e has issued no upload and takes no
\* further step
NoUploadWith(e) ==
    /\ error' = e => (pc' = "done" /\ sent'["upload1"] = 0 /\ sent'["upload2"] = 0
                      /\ sent'["prompt"] = 0)
    /\ error = e => UNCHANGED sent

\* the buffer of image i
ImageBuffer(i) == IF i = 1 THEN firstImageBuffer ELSE secondImageBuffer

\* C24: a named-attachment input whose requested name is absent from a record
\* without any image attachment fails with NotFound at the resolution step; no
\* attachment is read for it, and no upload is issued in the invocation.
C24_NoAlternativeNotFound ==
    [][ /\ \A i \in {1, 2} :
             ( /\ ResolvingAttachment(i)
               /\ NamedIn(items[RecordOf(i)], BinaryNameOf(i)) = {}
               /\ ImagesIn(items[RecordOf(i)]) = {} )
             => /\ pc' = "done"
                /\ error' = "NotFound"
                /\ ImageBuffer(i) = NoBuffer
                /\ firstImageBuffer' = firstImageBuffer
                /\ secondImageBuffer' = secondImageBuffer
        /\ NoUploadWith("NotFound") ]_vars

\* the video pipeline read its first image from the first record and found no
\* image in the second record for the second one
C24_Witness ==
    /\ params.pipeline = "video"
    /\ items = <<ItemDataAndDoc, ItemDocOnly>>
    /\ params.firstInputType = "binary"
    /\ params.secondInputType = "binary"
    /\ firstImageBuffer = AttachmentBuffer(0, "data")
    /\ secondImageBuffer = NoBuffer
    /\ pc = "done"
    /\ error = "NotFound"
    /\ sent["upload1"] = 0

\* the buffer holds no bytes of an attachment whose media type is not image/
NoForeignBytes(b) ==
    b.src = "binary" =>
        \A k \in NamedIn(items[b.item + 1], b.name) :
            items[b.item + 1].binary[k].mime = "image"

\* C25: a named-attachment input whose requested name is present with a media
\* type that is missing or does not begin with image/ fails with WrongMediaType
\* at the resolution step; an alternative the search settles on is an image;
\* after WrongMediaType no upload is issued, and no upload ever carries the
\* bytes of an attachment of another media type.
C25_WrongMediaType ==
    [][ /\ \A i \in {1, 2} :
             ( /\ ResolvingAttachment(i)
               /\ \E k \in NamedIn(items[RecordOf(i)], BinaryNameOf(i)) :
                     items[RecordOf(i)].binary[k].mime \in {"missing", "other"} )
             => (pc' = "done" /\ error' = "WrongMediaType")
        /\ \A i \in {1, 2} :
             (ResolvingAttachment(i) /\ pc' = AfterResolvePc(i))
             => (IF i = 1 THEN NoForeignBytes(firstImageBuffer')
                 ELSE NoForeignBytes(secondImageBuffer'))
        /\ sent'["upload1"] > 0 => NoForeignBytes(firstImageBuffer')
        /\ sent'["upload2"] > 0 => NoForeignBytes(secondImageBuffer')
        /\ NoUploadWith("WrongMediaType") ]_vars

\* the second image's attachment has no media type: the invocation ended with
\* WrongMediaType after the first image was resolved, with no upload
C25_Witness ==
    /\ items = <<ItemUntyped>>
    /\ params.firstInputType = "binary"
    /\ params.secondInputType = "binary"
    /\ firstImageBuffer = AttachmentBuffer(0, "data")
    /\ pc = "done"
    /\ error = "WrongMediaType"
    /\ sent["upload1"] = 0
    /\ sent["upload2"] = 0

\* the conventional names of a second image
ConventionalNames == {"data2", "image2", "second_image", "secondImage"}

\* the attachments of the record that carry a conventional name and an image
\* media type
ConventionalIn(rec) ==
    {k \in ImagesIn(rec) : rec.binary[k].name \in ConventionalNames}

\* the first image attachment of the record in the order of its keys
FirstImageIn(rec) ==
    rec.binary[CHOOSE k \in ImagesIn(rec) : \A j \in ImagesIn(rec) : k <= j]

\* the requested name of image i is absent from its record
RequestedAbsent(i) ==
    ResolvingAttachment(i) /\ NamedIn(items[RecordOf(i)], BinaryNameOf(i)) = {}

\* C26: in the video pipeline, when the requested name of the second image is
\* absent, an image attachment under a conventional name is used whenever the
\* record has one, and the first image attachment in key order only when it
\* has none; for the first image the first image attachment in key order is
\* used whatever the conventional names in the record.
C26_ConventionalNamesFirst ==
    [][ params.pipeline = "video" =>
          /\ (RequestedAbsent(2) /\ ConventionalIn(items[RecordOf(2)]) # {})
               => \E k \in ConventionalIn(items[RecordOf(2)]) :
                     ResolvesTo(2, items[RecordOf(2)].binary[k])
          /\ ( /\ RequestedAbsent(2)
               /\ ConventionalIn(items[RecordOf(2)]) = {}
               /\ ImagesIn(items[RecordOf(2)]) # {} )
               => ResolvesTo(2, FirstImageIn(items[RecordOf(2)]))
          /\ (RequestedAbsent(1) /\ ImagesIn(items[1]) # {})
               => ResolvesTo(1, FirstImageIn(items[1])) ]_vars

\* neither requested name is in the record: the first image is the first image
\* attachment, the second one the attachment under a conventional name that
\* comes after it
C26_Witness ==
    /\ params.pipeline = "video"
    /\ items = <<ItemPhotoImage2>>
    /\ params.firstInputType = "binary"
    /\ params.secondInputType = "binary"
    /\ firstImageBuffer = AttachmentBuffer(0, "photo")
    /\ secondImageBuffer = AttachmentBuffer(0, "image2")
    /\ sent["upload2"] = 1

\* the job identifiers a submission response may carry
JobIds == SubmitAnswers \ {"fail", "no_id"}

\* C27: in every pipeline the step that receives the submission response
\* either ends the invocation, with NoJobId when the response arrived without
\* a job identifier, or starts polling with the identifier received; a
\* history query is only ever issued for such an identifier, and an invocation
\* that failed with NoJobId has issued no history query and issues none.
C27_NoJobIdNoPolling ==
    [][ /\ pc = "submit_wait" =>
             \/ /\ pc' = "done"
                /\ promptId' = ""
                /\ \/ error' = "SubmitFailed" /\ "prompt" \in failed'
                   \/ error' = "NoJobId" /\ "prompt" \notin failed'
             \/ /\ pc' = "grace"
                /\ error' = ""
                /\ promptId' \in JobIds
        /\ sent'["history"] > 0 => promptId' \in JobIds
        /\ error' = "NoJobId" =>
             (pc' = "done" /\ sent'["prompt"] = 1 /\ sent'["history"] = 0
              /\ sent'["view"] = 0 /\ result' = <<>>)
        /\ error = "NoJobId" => UNCHANGED sent ]_vars

\* the submission was answered without a job identifier: the invocation is
\* over with NoJobId and no history query
C27_Witness ==
    /\ pc = "done"
    /\ error = "NoJobId"
    /\ sent["prompt"] = 1
    /\ failed = {}
    /\ sent["history"] = 0
    /\ promptId = ""

\* the parsed response of an upload carries no name
NamelessUpload == Undefined \in {firstImageInfo, secondImageInfo}

\* C28: in the dual-input pipelines an upload whose response is not JSON or is
\* JSON without a name ends the invocation with MalformedResponse: no node is
\* patched with a value taken from it and the graph is never submitted.
C28_MalformedUploadRejected ==
    (params.pipeline \in DualInput /\ NamelessUpload) =>
        /\ pc = "done"
        /\ error = "MalformedResponse"
        /\ workflowData = Unparsed
        /\ sent["prompt"] = 0

\* the fields of a result that describe the file: mime type, file name,
\* payload and byte size label
FileFields == {"mimeType", "fileName", "data", "fileSize"}

\* the derived fields a pipeline adds to its result
DerivedFields ==
    CASE params.pipeline = "dual"  -> {"inputImages"}
      [] params.pipeline = "video" -> {"frameCount", "frameRate", "duration"}
      [] OTHER                     -> {"prompt", "duration", "quality"}

\* the field is in both views of the result, with one value
Mirrored(f) ==
    /\ f \in DOMAIN result[1].json
    /\ f \in DOMAIN result[1].binary
    /\ result[1].json[f] = result[1].binary[f]

\* C29 (as claimed): on success the mime type, the file name, the payload, the
\* byte size label and the pipeline's derived fields are present in the json
\* view and in the binary view with equal values.
C29_ViewsMirrored ==
    result # <<>> => \A f \in FileFields \cup DerivedFields : Mirrored(f)

\* C29 (amended): on success the mime type, the file name and the payload are
\* present in both views with equal values; the byte size label, the file
\* type and the file extension are in the binary view only; the job status
\* and the pipeline's derived fields are in the json view only.
C29_ViewsShareFileIdentity ==
    result # <<>> =>
        /\ \A f \in {"mimeType", "fileName", "data"} : Mirrored(f)
        /\ DOMAIN result[1].binary
             = {"mimeType", "fileName", "data", "fileSize", "fileType", "fileExtension"}
        /\ DOMAIN result[1].json
             = {"mimeType", "fileName", "data", "status"} \cup DerivedFields
        /\ result[1].binary.fileName = imageOutput[1].filename
        /\ result[1].binary.fileSize = SizeLabel(imageOutput[1])

\* the video pipeline returned an item whose json view carries the duration and
\* whose binary view carries the size label
C29_Witness ==
    /\ params.pipeline = "video"
    /\ result # <<>>
    /\ result[1].json.duration = [num |-> params.frameCount, den |-> params.frameRate]
    /\ "duration" \notin DOMAIN result[1].binary
    /\ result[1].binary.fileSize = SizeLabel(imageOutput[1])
    /\ "fileSize" \notin DOMAIN result[1].json
    /\ result[1].json.fileName = result[1].binary.fileName

\* the header names of a request were last sent with
NamesCarried(k) == {h.name : h \in carried[k]}

\* the requests that go to the render server
ServerRequests == RequestKinds \ {"fetch1", "fetch2"}

\* C30: with an API key configured every request sent to the render server
\* carries the Authorization header with the bearer token and the fetch of an
\* input image URL carries none; without a key no request carries one.
C30_BearerOnServerRequests ==
    \A k \in RequestKinds : sent[k] > 0 =>
        IF params.apiKey # "" /\ k \in ServerRequests
        THEN Header("Authorization", Bearer(params.apiKey)) \in carried[k]
        ELSE "Authorization" \notin NamesCarried(k)

\* with a key configured the invocation fetched both images without the
\* header and sent all five kinds of server requests with it
C30_Witness ==
    /\ params.apiKey = "key"
    /\ params.pipeline \in DualInput
    /\ \A k \in RequestKinds : sent[k] > 0
    /\ carried["fetch1"] = {}
    /\ carried["fetch2"] = {}
    /\ \A k \in ServerRequests : "Authorization" \in NamesCarried(k)
    /\ result # <<>>

\* C31: in the dual-image pipeline with two named-attachment inputs, when the
\* second requested name is absent from the record the attachment chosen in
\* its place is not the attachment used for the first image, so that the two
\* uploads never carry the bytes of one attachment.
C31_FallbackAvoidsFirst ==
    ( /\ params.pipeline = "dual"
      /\ params.firstInputType = "binary"
      /\ params.secondInputType = "binary"
      /\ NamedIn(items[1], params.secondBinaryPropertyName) = {}
      /\ secondImageBuffer # NoBuffer )
    => /\ secondImageBuffer # firstImageBuffer
       /\ (sent["upload1"] > 0 /\ sent["upload2"] > 0)
             => server.store[StoredName(1)].bytes # secondImageBuffer

\* C32: whenever a dual-input pipeline has submitted a graph, the graph sent
\* has two distinct LoadImage nodes of which one carries the first uploaded
\* asset's name in inputs.image and the other the second one's, whatever the
\* graph and the node ids.
C32_TwoDistinctNodesPatched ==
    (params.pipeline \in DualInput /\ submitted # <<>>) =>
        /\ Undefined \notin {firstImageInfo, secondImageInfo}
        /\ \E j, k \in 1..Len(submitted[1]) :
              /\ j # k
              /\ submitted[1][j].class_type = LoadImage
              /\ submitted[1][k].class_type = LoadImage
              /\ InputIs(submitted[1][j], "image", firstImageInfo)
              /\ InputIs(submitted[1][k], "image", secondImageInfo)

\* a history response that reports the job completed has arrived
CompletedSeen == history.arrived /\ ~Pending(history)

\* C33: once a history response has reported status.completed = true, the
\* invocation issues no further history query, whether it then succeeds, fails
\* with JobFailed or NoMatch, or fails to fetch the artifact; the completed
\* response stays the last one received.
C33_NoQueryAfterCompleted ==
    [][CompletedSeen =>
          /\ sent'["history"] = sent["history"]
          /\ history' = history
          /\ pc' \in {"view_wait", "done"}]_vars

\* a completed job without a matching artifact ended the invocation after its second query
C33_Witness ==
    /\ CompletedSeen
    /\ pc = "done"
    /\ error = "NoMatch"
    /\ sent["history"] = 2

\* a history entry with a status that does not report completed = true
StatusNotCompleted(h) == h.arrived /\ h.entry /\ h.status /\ ~h.completed

\* C34: an entry whose status is present without completed = true is still
\* pending whatever its status_str, "error" included: the tick raises no error
\* and goes back to the loop head, JobFailed is raised on a completed response
\* only, and an invocation whose queries were all answered without a completed
\* response ends with Timeout.
C34_NotCompletedIsPending ==
    [][ /\ (pc = "handle" /\ StatusNotCompleted(history))
            => (pc' = "loop" /\ error' = error /\ result' = result)
        /\ (error' = "JobFailed" /\ error # "JobFailed") => CompletedSeen
        /\ ( /\ pc # "done" /\ pc' = "done"
             /\ sent'["history"] > 0
             /\ "history" \notin failed'
             /\ ~CompletedSeen' )
            => error' = "Timeout" ]_vars

\* the last permitted query was answered with status_str "error" and completed false
C34_Witness ==
    /\ pc = "handle"
    /\ StatusNotCompleted(history)
    /\ history.status_str = "error"
    /\ ~Below(attempts, maxAttempts)

\* the response being handled belongs to the last query the loop permits
LastPermitted == attempts > 0 /\ ~Below(attempts, maxAttempts)

\* C35: Timeout is raised only after at least 60 x timeout history queries were
\* issued and all of them returned without a completed status; a last permitted
\* query answered completed, without error and with a matching artifact, leads
\* to the artifact fetch and to the result, never to Timeout; with timeout = 0
\* the invocation ends with Timeout without a single history query.
C35_TimeoutOnlyAfterAllQueries ==
    [][ /\ (error' = "Timeout" /\ error # "Timeout")
            => /\ ~Below(sent["history"], maxAttempts)
               /\ attempts = sent["history"]
               /\ inflight["history"] = 0
               /\ "history" \notin failed
               /\ ~CompletedSeen
        /\ ( /\ pc = "handle" /\ LastPermitted /\ CompletedSeen
             /\ history.status_str # "error"
             /\ Candidates(history.outputs) # <<>> )
            => (pc' = "view_wait" /\ error' = error)
        /\ (pc = "view_wait" /\ pc' = "done")
            => (result' # <<>> \/ error' \in {"OutputFetchFailed", "OutputNotFound"})
        /\ (pc = "loop" /\ params.timeout.num = 0)
            => (error' = "Timeout" /\ sent'["history"] = 0) ]_vars

\* the sixtieth query of a one-minute timeout was answered completed and the result returned
C35_Witness ==
    /\ pc = "done"
    /\ result # <<>>
    /\ CompletedSeen
    /\ Equals(attempts, maxAttempts)
    /\ attempts >= AttemptsPerMinute

\* the input fields a pipeline writes
WrittenFields(pipeline) ==
    CASE pipeline = "dual"  -> {"image"}
      [] pipeline = "video" -> {"image", "frame_count", "frames", "frame_rate", "fps"}
      [] OTHER              -> {"tags", "seconds", "seed", "steps", "cfg", "quality"}

\* the node may be a located target or is of a kind the pipeline recognises
MayBePatched(node) ==
    CASE params.pipeline = "dual"  -> node.class_type = LoadImage
      [] params.pipeline = "video" ->
            \/ node.id \in {params.firstImageNodeId, params.secondImageNodeId}
            \/ node.class_type \in SweptKinds
      [] OTHER ->
            node.class_type \in {"TextEncodeAceStepAudio", "EmptyAceStepLatentAudio",
                                 "KSampler", "SaveAudioMP3"}

\* C36: patching changes nothing but the documented fields: the submitted
\* graph has the node ids and kinds of the parsed graph in the same order, a
\* node that is neither a located target nor of a recognised kind is sent as it
\* was parsed, and in every node each input field that the pipeline does not
\* write is present exactly when it was parsed, with its parsed value.
C36_PatchFrame ==
    submitted # <<>> =>
        /\ Len(submitted[1]) = Len(ParsedNodes)
        /\ \A k \in 1..Len(ParsedNodes) :
              /\ submitted[1][k].id = ParsedNodes[k].id
              /\ submitted[1][k].class_type = ParsedNodes[k].class_type
              /\ ~MayBePatched(ParsedNodes[k]) => submitted[1][k] = ParsedNodes[k]
              /\ (DOMAIN submitted[1][k].inputs) \ WrittenFields(params.pipeline)
                    = (DOMAIN ParsedNodes[k].inputs) \ WrittenFields(params.pipeline)
              /\ \A f \in (DOMAIN ParsedNodes[k].inputs) \ WrittenFields(params.pipeline) :
                    submitted[1][k].inputs[f] = ParsedNodes[k].inputs[f]

\* the video pipeline submitted the two-LoadImage graph: the combiner carries
\* the caller's frame rate and its parsed filename_prefix, the sampler is as parsed
C36_Witness ==
    /\ params.pipeline = "video"
    /\ params.workflow = "two_load.json"
    /\ submitted # <<>>
    /\ \E c, k \in 1..Len(submitted[1]) :
          /\ submitted[1][c].id = "combine"
          /\ submitted[1][c].inputs.frame_rate = params.frameRate
          /\ params.frameRate # "24"
          /\ submitted[1][c].inputs.filename_prefix = "out"
          /\ submitted[1][k].id = "sampler"
          /\ submitted[1][k] = ParsedNodes[k]

====
